---- MODULE Spec2Model ----
(***************************************************************************)
(* A model of the wissahickon multi-tenant backend: the role permission    *)
(* check, the Redis rate limiter, tenant resolution, the user-tenant-role  *)
(* associations and the request handlers built on them.                    *)
(*                                                                         *)
(* Each subsystem has its own variables and its own specification; a       *)
(* specification leaves the variables of the other subsystems unchanged.   *)
(***************************************************************************)
EXTENDS Integers, Sequences, FiniteSets, TLC

VARIABLES
    \* --- Role.has_permission (app/models/role.py) ---
    role_permissions,   \* the role's permissions column: None or a JSON object
    hp_call,            \* the last has_permission call: its argument and return value
    \* --- RateLimiter (app/core/rate_limiter.py) ---
    rl_enabled,         \* self.enabled
    rl_redis,           \* self.redis is set (a client object)
    store_count,        \* Redis: the value under the rate-limit key (0: no such key)
    store_ttl,          \* Redis: TTL of the key (-2: no key, -1: no expiry, else seconds)
    rl,                 \* per worker: the request it serves inside RateLimiter.limit.wrapped
    \* --- tenant resolution (app/core/middleware.py) ---
    app_debug,          \* current_app.debug
    tenants,            \* the tenants table: id -> row
    tr,                 \* per worker: the request it resolves a tenant for
    \* --- the database and the last response (app/models, app/api) ---
    users,              \* the users table: id -> row
    roles,              \* the roles table: id -> row
    user_tenant_roles,  \* the user_tenant_roles table: a sequence of rows
    settings,           \* the settings table, owner_type "tenant": a sequence of rows
    resp,               \* the last request handled and the response it got
    \* --- concurrent switch-tenant requests (app/models/user.py) ---
    sw,                 \* per worker: the SQLAlchemy session of its request
    \* --- concurrent single-key settings requests (app/api/settings/routes.py) ---
    sr,                 \* per worker: the settings request it serves
    \* --- audited requests (app/core/audit.py, app/models/audit_log.py) ---
    audit_logs,         \* the audit_logs table: a sequence of rows
    au,                 \* the request inside audit_action.decorated_function
    \* --- the way out of a request (app/__init__.py, security_headers.py) ---
    http,               \* the last HTTP exchange: the stage that answered, the response
    \* --- concurrent add_tenant_role calls (app/models/user.py) ---
    atr,                \* per worker: the add_tenant_role call it is inside
    \* --- request sanitization (app/core/security/sanitization.py) ---
    sz,                 \* the request inside sanitize_request.decorated_function
    \* --- requests served inside one application context (flask.g) ---
    g_kept              \* g.tenant as the last tenant-resolved request left it

varsRole == <<role_permissions, hp_call>>
varsRL == <<rl_enabled, rl_redis, store_count, store_ttl, rl>>

varsTR == <<app_debug, tenants, tr>>

varsDB == <<users, roles, user_tenant_roles, settings, resp>>

varsAudit == <<audit_logs, au>>

varsMore == <<atr, sz, g_kept>>

varsExt == <<sr, varsAudit, http, varsMore>>

vars == <<varsRole, varsRL, varsTR, varsDB, sw, varsExt>>

(***************************************************************************)
(* JSON objects and Python truthiness                                      *)
(***************************************************************************)

\* A key that a JSON object does not hold.
Absent == "<absent>"

\* The JSON values a permission entry is given in the model.
JsonValues == {"true", "false", "1", "0"}

\* Python truthiness of a JSON value (True and 1 are truthy, False and 0 are not).
Truthy(v) == v \in {"true", "1"}

\* dict.get(key, default)
DictGet(d, k, default) == IF k \in DOMAIN d /\ d[k] # Absent THEN d[k] ELSE default

\* The keys a permissions object is given in the role specification.
RoleKeys == {"admin", "manage_users", "view_users"}

\* Permission (enum): member name -> value.
PermissionValue ==
    [MANAGE_TENANT |-> "manage_tenant", VIEW_TENANT |-> "view_tenant",
     MANAGE_USERS  |-> "manage_users",  VIEW_USERS  |-> "view_users",
     MANAGE_ROLES  |-> "manage_roles",  VIEW_ROLES  |-> "view_roles",
     USE_FEATURE_X |-> "use_feature_x", USE_FEATURE_Y |-> "use_feature_y"]

\* The arguments has_permission is called with: enum members and plain strings.
PermissionInputs ==
    {[kind |-> "enum", name |-> "MANAGE_USERS"],
     [kind |-> "enum", name |-> "VIEW_USERS"],
     [kind |-> "enum", name |-> "VIEW_TENANT"],
     [kind |-> "str",  name |-> "manage_users"],
     [kind |-> "str",  name |-> "MANAGE_USERS"],
     [kind |-> "str",  name |-> "admin"]}

\* perm_value = permission.value if isinstance(permission, Permission) else str(permission)
perm_value(permission) ==
    IF permission.kind = "enum" THEN PermissionValue[permission.name] ELSE permission.name

\* `not self.permissions`: None or the empty object.
PermissionsFalsy(p) == p.none \/ \A k \in DOMAIN p.items : p.items[k] = Absent

has_permission_noadmin(p, permission) ==
    IF PermissionsFalsy(p) THEN "false"
    ELSE DictGet(p.items, perm_value(permission), "false")

\* Role.has_permission: the value returned (a JSON value, used for its truthiness).
has_permission(p, permission) ==
    IF PermissionsFalsy(p) THEN "false"
    ELSE IF Truthy(DictGet(p.items, "admin", "false")) THEN "true"
    ELSE DictGet(p.items, perm_value(permission), "false")

NoPermissions == [none |-> TRUE, items |-> [k \in RoleKeys |-> Absent]]

NoCall == [called |-> FALSE, permission |-> [kind |-> "str", name |-> ""], result |-> "false"]

InitRoleIdle == role_permissions = NoPermissions /\ hp_call = NoCall

InitRoleInputs ==
    /\ role_permissions \in
         {NoPermissions} \cup
         {[none |-> FALSE, items |-> f] : f \in [RoleKeys -> JsonValues \cup {Absent}]}
    /\ hp_call = NoCall

\* role.has_permission(permission)
HasPermissionCall ==
    \E permission \in PermissionInputs :
        /\ hp_call' = [called |-> TRUE, permission |-> permission,
                       result |-> has_permission(role_permissions, permission)]
        /\ UNCHANGED role_permissions

(***************************************************************************)
(* RateLimiter.limit (app/core/rate_limiter.py) over a Redis store         *)
(***************************************************************************)

\* limit and period of the decorated route (the tests use limit=2, period=5).
Limit == 2
Period == 2

\* The counter is followed up to this value.
MaxCount == Limit + 2

RLWorkers == {"w1", "w2"}

\* What the wrapped handler f does when called: returns a response, returns a
\* (response, 201) tuple, raises APIError, raises another exception.
HandlerOutcomes == {"ok", "created", "api_error", "error"}

\* The HTTP status the client sees for a handler outcome.
HandlerStatus(o) ==
    CASE o = "ok" -> 200
      [] o = "created" -> 201
      [] o = "api_error" -> 400
      [] OTHER -> 500

RLIdle ==
    [pc |-> "idle", current |-> 0, remaining |-> 0, reset |-> 0, retry_after |-> 0,
     store_failed |-> FALSE, runs |-> 0, outcome |-> "none", status |-> 0,
     by |-> "none", headers |-> FALSE]

InitRLIdle ==
    /\ rl_enabled = TRUE
    /\ rl_redis = TRUE
    /\ store_count = 0
    /\ store_ttl = -2
    /\ rl = [w \in RLWorkers |-> RLIdle]

\* RateLimiter.__init__ and init_app: RATE_LIMIT_ENABLED off leaves redis unset;
\* a failing redis.from_url disables the limiter; without init_app redis is None.
InitRL ==
    /\ \E c \in {<<TRUE, TRUE>>, <<FALSE, FALSE>>, <<TRUE, FALSE>>} :
          rl_enabled = c[1] /\ rl_redis = c[2]
    /\ store_count = 0
    /\ store_ttl = -2
    /\ rl = [w \in RLWorkers |-> RLIdle]

\* A request enters wrapped(): rate limiting is skipped when disabled or without Redis.
RLStart(w) ==
    /\ rl[w].pc \in {"idle", "done"}
    /\ rl' = [rl EXCEPT ![w] =
                [RLIdle EXCEPT !.pc = IF ~rl_enabled \/ ~rl_redis THEN "direct" ELSE "incr"]]
    /\ UNCHANGED <<rl_enabled, rl_redis, store_count, store_ttl>>

\* current = redis_client.incr(key)
RLIncr(w) ==
    /\ rl[w].pc = "incr"
    /\ store_count < MaxCount
    /\ store_count' = store_count + 1
    /\ store_ttl' = IF store_count = 0 THEN -1 ELSE store_ttl
    /\ rl' = [rl EXCEPT ![w].current = store_count + 1,
                        ![w].pc = IF store_count + 1 = 1 THEN "expire" ELSE "ttl_hdr"]
    /\ UNCHANGED <<rl_enabled, rl_redis>>

\* if current == 1: redis_client.expire(key, period)
RLExpire(w) ==
    /\ rl[w].pc = "expire"
    /\ store_ttl' = IF store_count > 0 THEN Period ELSE store_ttl
    /\ rl' = [rl EXCEPT ![w].pc = "ttl_hdr"]
    /\ UNCHANGED <<rl_enabled, rl_redis, store_count>>

\* remaining = max(0, limit - current); the headers, with X-RateLimit-Reset = ttl(key)
RLHeaders(w) ==
    /\ rl[w].pc = "ttl_hdr"
    /\ rl' = [rl EXCEPT ![w].remaining = IF Limit - rl[w].current > 0
                                         THEN Limit - rl[w].current ELSE 0,
                        ![w].reset = store_ttl,
                        ![w].pc = IF rl[w].current > Limit THEN "ttl_body" ELSE "handler"]
    /\ UNCHANGED <<rl_enabled, rl_redis, store_count, store_ttl>>

\* if current > limit: the body, with retry_after = ttl(key)
RLDenyBody(w) ==
    /\ rl[w].pc = "ttl_body"
    /\ rl' = [rl EXCEPT ![w].pc = "ttl_retry"]
    /\ UNCHANGED <<rl_enabled, rl_redis, store_count, store_ttl>>

\* Retry-After = ttl(key); return response, 429
RLDeny(w) ==
    /\ rl[w].pc = "ttl_retry"
    /\ rl' = [rl EXCEPT ![w].retry_after = store_ttl,
                        ![w].status = 429,
                        ![w].by = "limiter",
                        ![w].headers = TRUE,
                        ![w].pc = "done"]
    /\ UNCHANGED <<rl_enabled, rl_redis, store_count, store_ttl>>

\* A call to Redis raises redis.RedisError: the outer except takes over. An INCR
\* whose reply is lost may have been applied.
RLStoreFails(w) ==
    /\ rl[w].pc \in {"incr", "expire", "ttl_hdr", "ttl_body", "ttl_retry"}
    /\ rl' = [rl EXCEPT ![w].store_failed = TRUE, ![w].pc = "fallback"]
    /\ \/ UNCHANGED <<store_count, store_ttl>>
       \/ /\ rl[w].pc = "incr"
          /\ store_count < MaxCount
          /\ store_count' = store_count + 1
          /\ store_ttl' = IF store_count = 0 THEN -1 ELSE store_ttl
    /\ UNCHANGED <<rl_enabled, rl_redis>>

\* response = f(*args, **kwargs) inside the inner try: a response gets the
\* headers, an APIError becomes a response with the headers, any other exception
\* reaches the outer except.
RLHandler(w) ==
    /\ rl[w].pc = "handler"
    /\ \E o \in HandlerOutcomes :
         rl' = [rl EXCEPT ![w] =
                  IF o = "error"
                  THEN [@ EXCEPT !.runs = @ + 1, !.outcome = o, !.pc = "fallback"]
                  ELSE [@ EXCEPT !.runs = @ + 1, !.outcome = o,
                                 !.status = HandlerStatus(o),
                                 !.by = IF o = "api_error" THEN "limiter" ELSE "handler",
                                 !.headers = TRUE,
                                 !.pc = "done"]]
    /\ UNCHANGED <<rl_enabled, rl_redis, store_count, store_ttl>>

RLFallbackDenies(w) ==
    /\ rl[w].pc = "fallback"
    /\ rl' = [rl EXCEPT ![w].status = 429, ![w].by = "limiter", ![w].pc = "done"]
    /\ UNCHANGED <<rl_enabled, rl_redis, store_count, store_ttl>>

\* except (redis.RedisError, Exception): log a warning and return f(*args, **kwargs)
RLFallback(w) ==
    /\ rl[w].pc = "fallback"
    /\ \E o \in HandlerOutcomes :
         rl' = [rl EXCEPT ![w].runs = @ + 1,
                          ![w].outcome = o,
                          ![w].status = HandlerStatus(o),
                          ![w].by = "handler",
                          ![w].headers = FALSE,
                          ![w].pc = "done"]
    /\ UNCHANGED <<rl_enabled, rl_redis, store_count, store_ttl>>

\* if not self.enabled or not self.redis: return f(*args, **kwargs)
RLDirect(w) ==
    /\ rl[w].pc = "direct"
    /\ \E o \in HandlerOutcomes :
         rl' = [rl EXCEPT ![w].runs = @ + 1,
                          ![w].outcome = o,
                          ![w].status = HandlerStatus(o),
                          ![w].by = "handler",
                          ![w].headers = FALSE,
                          ![w].pc = "done"]
    /\ UNCHANGED <<rl_enabled, rl_redis, store_count, store_ttl>>

\* One second passes in Redis: the key's TTL runs down and the key expires at 0.
RLTick ==
    /\ store_ttl >= 1
    /\ store_ttl' = IF store_ttl = 1 THEN -2 ELSE store_ttl - 1
    /\ store_count' = IF store_ttl = 1 THEN 0 ELSE store_count
    /\ UNCHANGED <<rl_enabled, rl_redis, rl>>

(***************************************************************************)
(* Tenant resolution: TenantMiddleware.get_tenant_from_request and         *)
(* tenant_required (app/core/middleware.py)                                *)
(***************************************************************************)

\* No tenant: Python's None.
NoTenant == "none"

\* A Host header is a sequence of labels and separators; <<>> is a missing header.
Hosts ==
    {<<>>,
     <<"acme">>,
     <<"acme", ".", "example", ".", "com">>,
     <<"acme", ":", "8080">>,
     <<"www", ".", "acme", ".", "com">>,
     <<"beta", ".", "example", ".", "com", ":", "443">>,
     <<"localhost", ":", "5000">>}

\* X-Tenant-ID: absent, the id of a seeded tenant, or an id no tenant has.
TenantHeaders == {NoTenant, "t1", "t2", "zz"}

\* The rows the tenants table may hold before the first request.
SeedTenants ==
    [t1 |-> [name |-> "Acme", subdomain |-> "acme"],
     t2 |-> [name |-> "WWW", subdomain |-> "www"]]

TRWorkers == {"w1", "w2"}

\* The uuid4 a request gives the tenant it creates.
NewTenantId(w) == IF w = "w1" THEN "dev1" ELSE "dev2"

\* s.split(sep)[0]: the part of s before the first sep.
RECURSIVE SplitFirst(_, _)
SplitFirst(s, sep) ==
    IF s = <<>> \/ Head(s) = sep THEN <<>>
    ELSE <<Head(s)>> \o SplitFirst(Tail(s), sep)

\* A string without "." or ":" as a Host-like sequence: one label.
Label(s) == <<s>>

SubdomainKeepsPort(hostname) == SplitFirst(hostname, ".")

\* subdomain = hostname.split(":")[0].split(".")[0]
Subdomain(hostname) == SplitFirst(SplitFirst(hostname, ":"), ".")

ReservedSubdomains == {Label("localhost"), Label("www"), Label("api")}

\* Production tenant resolution: the active tenant with the Host's subdomain.
ProductionTenants(tbl, hostname) ==
    IF hostname = <<>> \/ Subdomain(hostname) \in ReservedSubdomains THEN {}
    ELSE {t \in DOMAIN tbl :
            Label(tbl[t].subdomain) = Subdomain(hostname) /\ tbl[t].is_active}

SubdomainNotUnique(tbl, s) == FALSE

\* tenants.subdomain is unique: an INSERT of a taken subdomain fails.
SubdomainTaken(tbl, s) == \E t \in DOMAIN tbl : tbl[t].subdomain = s

\* tenant_required after resolution: TenantNotFoundError, InactiveTenantError or
\* the route handler.
TenantOutcome(tbl, t) ==
    IF t = NoTenant THEN "TenantNotFound"
    ELSE IF ~tbl[t].is_active THEN "InactiveTenant"
    ELSE "handler"

TRIdle == [pc |-> "idle", host |-> <<>>, header |-> NoTenant, result |-> NoTenant,
           outcome |-> "none", created |-> FALSE]

TRDone(w, tbl, t, made) ==
    [tr EXCEPT ![w].pc = "done", ![w].result = t,
               ![w].outcome = TenantOutcome(tbl, t), ![w].created = made]

InitTRIdle ==
    /\ app_debug = FALSE
    /\ tenants = [t \in {"t1"} |-> [name |-> "Acme", subdomain |-> "acme", is_active |-> TRUE]]
    /\ tr = [w \in TRWorkers |-> TRIdle]

InitTR ==
    /\ app_debug \in BOOLEAN
    /\ \E ids \in SUBSET (DOMAIN SeedTenants) :
       \E act \in [ids -> BOOLEAN] :
          tenants = [t \in ids |-> [name |-> SeedTenants[t].name,
                                    subdomain |-> SeedTenants[t].subdomain,
                                    is_active |-> act[t]]]
    /\ tr = [w \in TRWorkers |-> TRIdle]

\* A request with its Host and X-Tenant-ID headers reaches get_tenant_from_request.
TRStart(w) ==
    /\ tr[w].pc \in {"idle", "done"}
    /\ \E host \in Hosts, header \in TenantHeaders :
         tr' = [tr EXCEPT ![w] = [TRIdle EXCEPT !.host = host, !.header = header,
                                    !.pc = IF app_debug THEN "q_header" ELSE "q_host"]]
    /\ UNCHANGED <<app_debug, tenants>>

\* if tenant_id: tenant = Tenant.query.get(tenant_id); if tenant: return tenant
TRHeader(w) ==
    /\ tr[w].pc = "q_header"
    /\ tr' = IF tr[w].header # NoTenant /\ tr[w].header \in DOMAIN tenants
             THEN TRDone(w, tenants, tr[w].header, FALSE)
             ELSE [tr EXCEPT ![w].pc = "q_active"]
    /\ UNCHANGED <<app_debug, tenants>>

\* tenant = Tenant.query.filter_by(is_active=True).first(); if tenant: return tenant
TRFirstActive(w) ==
    /\ tr[w].pc = "q_active"
    /\ LET active == {t \in DOMAIN tenants : tenants[t].is_active}
       IN  IF active # {}
           THEN \E t \in active : tr' = TRDone(w, tenants, t, FALSE)
           ELSE tr' = [tr EXCEPT ![w].pc = "q_any"]
    /\ UNCHANGED <<app_debug, tenants>>

\* if not Tenant.query.first(): create the development tenant; else go on to
\* the production resolution.
TRAnyTenant(w) ==
    /\ tr[w].pc = "q_any"
    /\ tr' = [tr EXCEPT ![w].pc = IF DOMAIN tenants = {} THEN "insert" ELSE "q_host"]
    /\ UNCHANGED <<app_debug, tenants>>

\* db.session.add(default_tenant); db.session.commit(); return default_tenant.
\* A failing commit is caught by except Exception: return None.
TRCreateDevelopment(w) ==
    /\ tr[w].pc = "insert"
    /\ IF SubdomainTaken(tenants, "development")
       THEN /\ tr' = TRDone(w, tenants, NoTenant, FALSE)
            /\ UNCHANGED tenants
       ELSE LET row == [name |-> "Development Tenant", subdomain |-> "development",
                        is_active |-> TRUE]
                tbl == [t \in DOMAIN tenants \cup {NewTenantId(w)} |->
                          IF t = NewTenantId(w) THEN row ELSE tenants[t]]
            IN  /\ tenants' = tbl
                /\ tr' = TRDone(w, tbl, NewTenantId(w), TRUE)
    /\ UNCHANGED app_debug

\* Production resolution from the Host header.
TRHost(w) ==
    /\ tr[w].pc = "q_host"
    /\ LET found == ProductionTenants(tenants, tr[w].host)
       IN  IF found # {}
           THEN \E t \in found : tr' = TRDone(w, tenants, t, FALSE)
           ELSE tr' = TRDone(w, tenants, NoTenant, FALSE)
    /\ UNCHANGED <<app_debug, tenants>>

(***************************************************************************)
(* The database: users, roles and user-tenant-role associations            *)
(* (app/models/user.py, role.py, user_tenant_role.py, settings.py)         *)
(***************************************************************************)

\* A request without a valid JWT, no user, no role, and a request context g
\* in which tenant_required has not set g.tenant.
Anonymous == "anon"
NoUser == "none"
NoRole == "none"
Unset == "<unset>"

\* At most this many users rows, and this many stamps of last_login per user.
MaxUsers == 3
MaxLogins == 1

\* The uuid4 ids of users rows, in the order the rows are created.
UserIds == <<"u1", "u2", "u3", "u4", "u5">>

HostOf(s) == <<s, ".", "example", ".", "com">>

\* Permission.<name>
Perm(name) == [kind |-> "enum", name |-> name]

\* A permissions column holding the JSON object items.
RolePermissions(items) == [none |-> FALSE, items |-> items]

\* Role.create_default_roles: the permissions of the admin and the user role.
AdminPermissions == RolePermissions([admin |-> "true"])
UserPermissions == RolePermissions([use_feature_x |-> "true"])

SeedRoles ==
    [r1a |-> [tenant_id |-> "t1", name |-> "admin", permissions |-> AdminPermissions],
     r1u |-> [tenant_id |-> "t1", name |-> "user",  permissions |-> UserPermissions],
     r2a |-> [tenant_id |-> "t2", name |-> "admin", permissions |-> AdminPermissions],
     r2u |-> [tenant_id |-> "t2", name |-> "user",  permissions |-> UserPermissions]]

UserRow(email, active, pw, google) ==
    [email |-> email, is_active |-> active, password_hash |-> pw,
     google_id |-> google, last_login |-> 0]

\* UserTenantRole(user_id, tenant_id, role_id, is_primary)
UserTenantRole(u, t, r, primary) ==
    [user_id |-> u, tenant_id |-> t, role_id |-> r, is_primary |-> primary]

\* self.tenant_roles.filter_by(tenant_id=tenant.id): row indexes
TenantRows(rows, u, t) ==
    {i \in 1..Len(rows) : rows[i].user_id = u /\ rows[i].tenant_id = t}

\* self.tenant_roles.filter_by(is_primary=True): row indexes
PrimaryRows(rows, u) ==
    {i \in 1..Len(rows) : rows[i].user_id = u /\ rows[i].is_primary}

\* query.first(): any row of the result, 0 (None) when there is none.
First(result) == IF result = {} THEN {0} ELSE result

\* tenant_role.role if tenant_role else None
RoleOfRow(rows, i) ==
    IF i = 0 \/ rows[i].role_id \notin DOMAIN roles THEN NoRole ELSE rows[i].role_id

ClearPrimary(rows, current_primary) ==
    IF current_primary # 0 THEN [rows EXCEPT ![current_primary].is_primary = FALSE]
    ELSE rows

add_tenant_role_keeps_primary(rows, u, t, r, is_primary, current_primary) ==
    Append(rows, UserTenantRole(u, t, r, is_primary))

\* User.add_tenant_role past the existing-role check: clear the current
\* primary when is_primary, add the new row, commit.
add_tenant_role(rows, u, t, r, is_primary, current_primary) ==
    Append(IF is_primary THEN ClearPrimary(rows, current_primary) ELSE rows,
           UserTenantRole(u, t, r, is_primary))

switch_primary_tenant_keeps_current(rows, new_primary, current_primary) ==
    [rows EXCEPT ![new_primary].is_primary = TRUE]

\* User.switch_primary_tenant past the lookup of new_primary.
switch_primary_tenant(rows, new_primary, current_primary) ==
    [ClearPrimary(rows, current_primary) EXCEPT ![new_primary].is_primary = TRUE]

\* The tenant row whose subdomain the Host header names, active or not.
HostTenant(host) ==
    LET named == {t \in DOMAIN tenants : Label(tenants[t].subdomain) = Subdomain(host)}
    IN  IF named = {} THEN NoTenant ELSE CHOOSE t \in named : TRUE

\* get_tenant_from_request with debug off; subdomains are unique.
Resolve(host) ==
    LET found == ProductionTenants(tenants, host)
    IN  IF found = {} THEN NoTenant ELSE CHOOSE t \in found : TRUE

\* The status create_app's error handlers give an exception that leaves the view.
ErrorStatus(error, status_code) ==
    CASE error = "APIError" -> status_code
      [] error = "PermissionDenied" -> 403
      [] error = "NotFound" -> 404
      [] OTHER -> 500

\* The claims of a response that carries no token.
NoClaims == [identity |-> NoUser, tenant_id |-> NoTenant, role |-> NoRole]

Resp(route, caller, target, tenant, perm, pw, status, error, ran, token) ==
    [route |-> route, caller |-> caller, target |-> target, tenant |-> tenant,
     perm |-> perm, password_ok |-> pw, status |-> status, error |-> error,
     ran |-> ran, token |-> token, claims |-> NoClaims]

\* The response carrying create_access_token(identity, additional_claims).
WithToken(r, identity, tenant_id, role) ==
    [r EXCEPT !.claims = [identity |-> identity, tenant_id |-> tenant_id, role |-> role]]

\* tenant_role.name if tenant_role else None, role the Role a lookup gave.
RoleName(role) == IF role = NoRole THEN NoRole ELSE roles[role].name

NoResp == Resp("none", NoUser, NoTenant, NoTenant, "none", FALSE, 0, "none", FALSE, FALSE)

\* jwt_required() refuses a request without a valid token.
Unauthorized(route, target) ==
    Resp(route, Anonymous, target, NoTenant, "none", FALSE, 401, "Unauthorized", FALSE, FALSE)

\* tenant_required raised TenantNotFoundError or InactiveTenantError.
TenantRefused(route, caller, target, t) ==
    Resp(route, caller, target, NoTenant, "none", FALSE,
         ErrorStatus(TenantOutcome(tenants, t), 0), TenantOutcome(tenants, t), FALSE, FALSE)

\* require_permission: role = user.get_role_for_tenant(g.tenant), i the row
\* .first() gave; reading g.tenant raises AttributeError when it was never set.
require_permission(caller, g_tenant, permission, i) ==
    IF g_tenant = Unset THEN "AttributeError"
    ELSE IF RoleOfRow(user_tenant_roles, i) = NoRole THEN "PermissionDenied"
    ELSE IF ~Truthy(has_permission(roles[RoleOfRow(user_tenant_roles, i)].permissions,
                                   permission))
         THEN "PermissionDenied"
    ELSE "pass"

\* The response of a request that require_permission refused.
PermissionRefused(route, caller, target, g_tenant, permission, outcome) ==
    Resp(route, caller, target, IF g_tenant = Unset THEN NoTenant ELSE g_tenant,
         permission.name, FALSE, ErrorStatus(outcome, 0), outcome, FALSE, FALSE)

InitDBIdle ==
    /\ users = [u \in {"u1"} |-> UserRow("a@x", TRUE, TRUE, "none")]
    /\ roles = SeedRoles
    /\ user_tenant_roles = <<UserTenantRole("u1", "t1", "r1a", TRUE)>>
    /\ settings = <<>>
    /\ resp = NoResp

(***************************************************************************)
(* Request handlers (app/api/auth, user, tenant, settings), debug off.     *)
(* Every request starts with a fresh request context g.                    *)
(***************************************************************************)

ApiHosts == {HostOf("acme"), HostOf("beta")}
LoginEmails == {"a@x", "b@x", "zz@x"}
GoogleSubjects == {"bad", "g2", "g3"}
\* The tenant_id values of request bodies; "" is a body without tenant_id.
TenantIdInputs == {"t1", "t2", "zz", ""}
Callers == DOMAIN users \cup {Anonymous}

\* POST /api/auth/login
Login(host, email, password_ok) ==
    LET t == Resolve(host)
        target == HostTenant(host)
        found == {u \in DOMAIN users : users[u].email = email}
        R(u, status, error, token) ==
            Resp("login", u, target, t, "none", password_ok, status, error, TRUE, token)
    IN  IF TenantOutcome(tenants, t) # "handler"
        THEN /\ resp' = TenantRefused("login", NoUser, target, t)
             /\ UNCHANGED <<users, user_tenant_roles>>
        ELSE IF found = {}
        THEN /\ resp' = R(NoUser, 401, "Invalid email or password", FALSE)
             /\ UNCHANGED <<users, user_tenant_roles>>
        ELSE \E u \in found :
             IF ~users[u].password_hash
             THEN /\ resp' = R(u, 500, "AttributeError", FALSE)
                  /\ UNCHANGED <<users, user_tenant_roles>>
             ELSE IF ~password_ok
             THEN /\ resp' = R(u, 401, "Invalid email or password", FALSE)
                  /\ UNCHANGED <<users, user_tenant_roles>>
             ELSE IF ~users[u].is_active
             THEN /\ resp' = R(u, 401, "Account is inactive", FALSE)
                  /\ UNCHANGED <<users, user_tenant_roles>>
             ELSE \E i \in First(TenantRows(user_tenant_roles, u, t)) :
                  IF RoleOfRow(user_tenant_roles, i) = NoRole
                  THEN /\ resp' = R(u, 403, "No access to this tenant", FALSE)
                       /\ UNCHANGED <<users, user_tenant_roles>>
                  ELSE /\ users[u].last_login < MaxLogins
                       /\ users' = [users EXCEPT ![u].last_login = @ + 1]
                       /\ IF PrimaryRows(user_tenant_roles, u) # {}
                          THEN /\ resp' = WithToken(R(u, 200, "none", TRUE), u, t,
                                                     RoleName(RoleOfRow(user_tenant_roles, i)))
                               /\ UNCHANGED user_tenant_roles
                          ELSE IF TenantRows(user_tenant_roles, u, t) # {}
                          THEN /\ resp' = R(u, 500, "ValueError", FALSE)
                               /\ UNCHANGED user_tenant_roles
                          ELSE /\ user_tenant_roles' =
                                    add_tenant_role(user_tenant_roles, u, t,
                                                    RoleOfRow(user_tenant_roles, i), TRUE, 0)
                               /\ resp' = WithToken(R(u, 200, "none", TRUE), u, t,
                                                     RoleName(RoleOfRow(user_tenant_roles, i)))

LoginRequest ==
    /\ \E host \in ApiHosts, email \in LoginEmails, password_ok \in BOOLEAN :
         Login(host, email, password_ok)
    /\ UNCHANGED <<tenants, roles, settings>>

\* The email of the Google account with subject id sub.
GoogleEmail(sub) == IF sub = "g2" THEN "b@x" ELSE "g@x"

\* The request bodies POST /api/auth/google is sent: no token, or the token
\* of a Google subject ("bad" is a token that fails verification).
GoogleTokens == GoogleSubjects \cup {"missing"}

\* A user may be stamped by /api/auth/google this often when logins are repeated.
MaxGoogleLogins == 2

\* verify_google_token: the APIError it raises, or status_code 0 and the
\* subject; client_id says whether GOOGLE_CLIENT_ID is set.
verify_google_token(token, client_id) ==
    IF ~client_id
    THEN [error |-> "Authentication failed: Google OAuth not configured",
          status_code |-> 500, sub |-> "none"]
    ELSE IF token = "bad"
    THEN [error |-> "Invalid token", status_code |-> 401, sub |-> "none"]
    ELSE [error |-> "none", status_code |-> 0, sub |-> token]

filter_by_google_id_none(sub) == {}

\* User.query.filter_by(google_id=google_user['sub'])
filter_by_google_id(sub) == {u \in DOMAIN users : users[u].google_id = sub}

\* POST /api/auth/google; a user is stamped at most logins times.
GoogleAuth(host, token, client_id, logins) ==
    LET t == Resolve(host)
        target == HostTenant(host)
        google_user == verify_google_token(token, client_id)
        sub == google_user.sub
        found == filter_by_google_id(sub)
        R(u, status, error, token_issued) ==
            Resp("google_auth", u, target, t, "none", FALSE, status, error, TRUE,
                 token_issued)
    IN  IF TenantOutcome(tenants, t) # "handler"
        THEN /\ resp' = TenantRefused("google_auth", NoUser, target, t)
             /\ UNCHANGED <<users, user_tenant_roles>>
        ELSE IF token = "missing"
        THEN /\ resp' = R(NoUser, 400, "Missing Google token", FALSE)
             /\ UNCHANGED <<users, user_tenant_roles>>
        ELSE IF google_user.status_code # 0
        THEN /\ resp' = R(NoUser, 401, google_user.error, FALSE)
             /\ UNCHANGED <<users, user_tenant_roles>>
        ELSE \E u \in (IF found = {} THEN {UserIds[Cardinality(DOMAIN users) + 1]}
                       ELSE found) :
             LET created == [v \in DOMAIN users \cup {u} |->
                               IF v \in DOMAIN users THEN users[v]
                               ELSE UserRow(GoogleEmail(sub), TRUE, FALSE, sub)]
                 default_role == {r \in DOMAIN roles :
                                    roles[r].name = "user" /\ roles[r].tenant_id = t}
             IN  /\ found = {} => Cardinality(DOMAIN users) < MaxUsers
                 /\ created[u].last_login < logins
                 /\ \E i \in First(TenantRows(user_tenant_roles, u, t)),
                       r \in (IF default_role = {} THEN {NoRole} ELSE default_role),
                       current_primary \in First(PrimaryRows(user_tenant_roles, u)) :
                      IF RoleOfRow(user_tenant_roles, i) # NoRole \/ r = NoRole
                      THEN /\ users' = [created EXCEPT ![u].last_login = @ + 1]
                           /\ UNCHANGED user_tenant_roles
                           /\ resp' = WithToken(R(u, 200, "none", TRUE), u, t,
                                                 RoleName(RoleOfRow(user_tenant_roles, i)))
                      ELSE IF TenantRows(user_tenant_roles, u, t) # {}
                      THEN /\ users' = created
                           /\ UNCHANGED user_tenant_roles
                           /\ resp' = R(u, 401, "ValueError", FALSE)
                      ELSE /\ users' = [created EXCEPT ![u].last_login = @ + 1]
                           /\ user_tenant_roles' =
                                add_tenant_role(user_tenant_roles, u, t, r,
                                                current_primary = 0, current_primary)
                           /\ resp' = WithToken(R(u, 200, "none", TRUE), u, t,
                                                 RoleName(RoleOfRow(user_tenant_roles, i)))

GoogleAuthRequest ==
    /\ \E host \in ApiHosts, token \in GoogleTokens, client_id \in BOOLEAN :
         GoogleAuth(host, token, client_id, MaxLogins)
    /\ UNCHANGED <<tenants, roles, settings>>

\* POST /api/auth/google, sent again by users who logged in before.
GoogleAuthRepeated ==
    /\ \E host \in ApiHosts, token \in GoogleTokens, client_id \in BOOLEAN :
         GoogleAuth(host, token, client_id, MaxGoogleLogins)
    /\ UNCHANGED <<tenants, roles, settings>>

\* GET /api/auth/me
GetCurrentUser(caller, host) ==
    LET t == Resolve(host)
        target == HostTenant(host)
    IN  IF caller = Anonymous THEN resp' = Unauthorized("get_current_user", target)
        ELSE IF TenantOutcome(tenants, t) # "handler"
        THEN resp' = TenantRefused("get_current_user", caller, target, t)
        ELSE \E i \in First(TenantRows(user_tenant_roles, caller, t)) :
             resp' = IF RoleOfRow(user_tenant_roles, i) = NoRole
                     THEN Resp("get_current_user", caller, target, t, "none", FALSE,
                               403, "No access to this tenant", TRUE, FALSE)
                     ELSE Resp("get_current_user", caller, target, t, "none", FALSE,
                               200, "none", TRUE, FALSE)

GetCurrentUserRequest ==
    /\ \E caller \in Callers, host \in ApiHosts : GetCurrentUser(caller, host)
    /\ UNCHANGED <<tenants, users, roles, user_tenant_roles, settings>>

\* POST /api/auth/switch-tenant: every exception leaves as APIError 400.
SwitchTenant(caller, tenant_id) ==
    LET target == IF tenant_id \in DOMAIN tenants THEN tenant_id ELSE NoTenant
        R(status, error, token) ==
            Resp("switch_tenant", caller, target, NoTenant, "none", FALSE,
                 status, error, TRUE, token)
    IN  IF caller = Anonymous
        THEN /\ resp' = Unauthorized("switch_tenant", target)
             /\ UNCHANGED user_tenant_roles
        ELSE IF tenant_id = ""
        THEN /\ resp' = R(400, "tenant_id is required", FALSE)
             /\ UNCHANGED user_tenant_roles
        ELSE IF tenant_id \notin DOMAIN tenants
        THEN /\ resp' = R(400, "NotFound", FALSE)
             /\ UNCHANGED user_tenant_roles
        ELSE \E new_primary \in First(TenantRows(user_tenant_roles, caller, tenant_id)),
                current_primary \in First(PrimaryRows(user_tenant_roles, caller)) :
             IF new_primary = 0
             THEN /\ resp' = R(400, "ValueError", FALSE)
                  /\ UNCHANGED user_tenant_roles
             ELSE /\ user_tenant_roles' =
                       switch_primary_tenant(user_tenant_roles, new_primary, current_primary)
                  /\ resp' = WithToken(R(200, "none", TRUE), caller, tenant_id,
                                        RoleName(RoleOfRow(user_tenant_roles, new_primary)))

SwitchTenantRequest ==
    /\ \E caller \in Callers, tenant_id \in TenantIdInputs : SwitchTenant(caller, tenant_id)
    /\ UNCHANGED <<tenants, users, roles, settings>>

\* GET /api/users: jwt_required, tenant_required, require_permission(VIEW_USERS)
ListUsers(caller, host) ==
    LET t == Resolve(host)
        target == HostTenant(host)
    IN  IF caller = Anonymous THEN resp' = Unauthorized("list_users", target)
        ELSE IF TenantOutcome(tenants, t) # "handler"
        THEN resp' = TenantRefused("list_users", caller, target, t)
        ELSE \E i \in First(TenantRows(user_tenant_roles, caller, t)) :
             LET outcome == require_permission(caller, t, Perm("VIEW_USERS"), i)
             IN  resp' = IF outcome # "pass"
                         THEN PermissionRefused("list_users", caller, target, t,
                                                Perm("VIEW_USERS"), outcome)
                         ELSE Resp("list_users", caller, target, t, "VIEW_USERS", FALSE,
                                   200, "none", TRUE, FALSE)

ListUsersRequest ==
    /\ \E caller \in Callers, host \in ApiHosts : ListUsers(caller, host)
    /\ UNCHANGED <<tenants, users, roles, user_tenant_roles, settings>>

\* The role_id values POST /api/users is sent.
CreateUserRoleIds == {"r1u"}

\* POST /api/users: jwt_required, tenant_required, require_permission(MANAGE_USERS).
\* The handler turns every exception, its own APIError too, into APIError 500.
CreateUser(caller, host, email, role_id) ==
    LET t == Resolve(host)
        target == HostTenant(host)
        u == UserIds[Cardinality(DOMAIN users) + 1]
        R(status, error) ==
            Resp("create_user", caller, target, t, "MANAGE_USERS", FALSE,
                 status, error, TRUE, FALSE)
    IN  IF caller = Anonymous
        THEN /\ resp' = Unauthorized("create_user", target)
             /\ UNCHANGED <<users, user_tenant_roles>>
        ELSE IF TenantOutcome(tenants, t) # "handler"
        THEN /\ resp' = TenantRefused("create_user", caller, target, t)
             /\ UNCHANGED <<users, user_tenant_roles>>
        ELSE \E i \in First(TenantRows(user_tenant_roles, caller, t)) :
             LET outcome == require_permission(caller, t, Perm("MANAGE_USERS"), i)
             IN  IF outcome # "pass"
                 THEN /\ resp' = PermissionRefused("create_user", caller, target, t,
                                                   Perm("MANAGE_USERS"), outcome)
                      /\ UNCHANGED <<users, user_tenant_roles>>
                 ELSE IF \E v \in DOMAIN users : users[v].email = email
                 THEN /\ resp' = R(500, "Email already exists")
                      /\ UNCHANGED <<users, user_tenant_roles>>
                 ELSE /\ Cardinality(DOMAIN users) < MaxUsers
                      /\ users' = [v \in DOMAIN users \cup {u} |->
                                     IF v \in DOMAIN users THEN users[v]
                                     ELSE UserRow(email, TRUE, TRUE, "none")]
                      /\ user_tenant_roles' =
                           Append(user_tenant_roles, UserTenantRole(u, t, role_id, TRUE))
                      /\ resp' = R(201, "none")

CreateUserRequest ==
    /\ \E caller \in Callers, host \in ApiHosts, email \in {"b@x", "c@x"},
          role_id \in CreateUserRoleIds :
         CreateUser(caller, host, email, role_id)
    /\ UNCHANGED <<tenants, roles, settings>>

\* POST /api/tenants: jwt_required, require_permission(MANAGE_TENANT); no
\* tenant_required, so g.tenant is not set when require_permission reads it.
CreateTenantIn(caller, subdomain, g_tenant, fails) ==
    LET new == "t3"
        admin == "r3a"
        R(status, error) ==
            Resp("create_tenant", caller, NoTenant, NoTenant, "MANAGE_TENANT", FALSE,
                 status, error, TRUE, FALSE)
        \* db.session.add(new_tenant)
        with_tenant == [t \in DOMAIN tenants \cup {new} |->
                          IF t \in DOMAIN tenants THEN tenants[t]
                          ELSE [name |-> "New", subdomain |-> subdomain,
                                is_active |-> TRUE]]
        \* Role.create_default_roles(new_tenant.id)
        with_roles == [r \in DOMAIN roles \cup {admin, "r3s", "r3u"} |->
                         IF r \in DOMAIN roles THEN roles[r]
                         ELSE [tenant_id |-> new,
                               name |-> IF r = admin THEN "admin"
                                        ELSE IF r = "r3s" THEN "staff"
                                        ELSE "user",
                               permissions |->
                                 IF r = admin THEN AdminPermissions
                                 ELSE IF r = "r3s"
                                 THEN RolePermissions(
                                        [view_users |-> "true",
                                         use_feature_x |-> "true",
                                         use_feature_y |-> "true"])
                                 ELSE UserPermissions]]
    IN  IF caller = Anonymous
        THEN /\ resp' = Unauthorized("create_tenant", NoTenant)
             /\ UNCHANGED <<tenants, roles, user_tenant_roles>>
        ELSE \E i \in First(IF g_tenant = Unset THEN {}
                            ELSE TenantRows(user_tenant_roles, caller, g_tenant)) :
             LET outcome == require_permission(caller, g_tenant, Perm("MANAGE_TENANT"), i)
             IN  IF outcome # "pass"
                 THEN /\ resp' = PermissionRefused("create_tenant", caller, NoTenant,
                                                   g_tenant, Perm("MANAGE_TENANT"), outcome)
                      /\ UNCHANGED <<tenants, roles, user_tenant_roles>>
                 ELSE IF SubdomainTaken(tenants, subdomain)
                 THEN /\ resp' = R(400, "Subdomain already in use")
                      /\ UNCHANGED <<tenants, roles, user_tenant_roles>>
                 ELSE IF fails = "roles_commit"
                 \* the commit inside create_default_roles fails: rollback
                 THEN /\ resp' = R(500, "APIError")
                      /\ UNCHANGED <<tenants, roles, user_tenant_roles>>
                 ELSE IF fails = "final_commit"
                 \* the tenant and its roles are committed by create_default_roles;
                 \* the rollback undoes the association alone
                 THEN /\ tenants' = with_tenant
                      /\ roles' = with_roles
                      /\ resp' = R(500, "APIError")
                      /\ UNCHANGED user_tenant_roles
                 ELSE /\ tenants' = with_tenant
                      /\ roles' = with_roles
                      /\ user_tenant_roles' =
                           Append(user_tenant_roles,
                                  UserTenantRole(caller, new, admin,
                                                 PrimaryRows(user_tenant_roles, caller) = {}))
                      /\ resp' = R(201, "none")

\* POST /api/tenants in a request context of its own: g has no tenant.
CreateTenant(caller, subdomain) == CreateTenantIn(caller, subdomain, Unset, "none")

CreateTenantRequest ==
    /\ \E caller \in Callers, subdomain \in {"acme", "gamma"} :
         CreateTenant(caller, subdomain)
    /\ UNCHANGED <<users, settings>>

\* GET /api/tenants/<tenant_id>: jwt_required, require_permission(VIEW_TENANT);
\* no tenant_required.
GetTenant(caller, tenant_id) ==
    LET g_tenant == Unset
        target == IF tenant_id \in DOMAIN tenants THEN tenant_id ELSE NoTenant
    IN  IF caller = Anonymous THEN resp' = Unauthorized("get_tenant", target)
        ELSE \E i \in First(IF g_tenant = Unset THEN {}
                            ELSE TenantRows(user_tenant_roles, caller, g_tenant)) :
             LET outcome == require_permission(caller, g_tenant, Perm("VIEW_TENANT"), i)
             IN  resp' = IF outcome # "pass"
                         THEN PermissionRefused("get_tenant", caller, target, g_tenant,
                                                Perm("VIEW_TENANT"), outcome)
                         ELSE IF target = NoTenant
                         THEN Resp("get_tenant", caller, target, NoTenant, "VIEW_TENANT",
                                   FALSE, 404, "Tenant not found", TRUE, FALSE)
                         ELSE Resp("get_tenant", caller, target, NoTenant, "VIEW_TENANT",
                                   FALSE, 200, "none", TRUE, FALSE)

GetTenantRequest ==
    /\ \E caller \in Callers, tenant_id \in TenantIdInputs : GetTenant(caller, tenant_id)
    /\ UNCHANGED <<tenants, users, roles, user_tenant_roles, settings>>

\* The value a settings request stores.
SettingsValues == {"v1"}

\* The keys of the settings JSON object and the owners that requests name.
SettingKeys == {"k1", "k2"}
SettingsOwners == {"t1", "t2"}

\* The settings table holds at most this many rows.
MaxSettingsRows == 2

\* The JSON object {}.
NoSettings == [k \in SettingKeys |-> Absent]

\* Settings(owner_type="tenant", owner_id=owner_id, settings=dict)
SettingsRow(owner_id, dict) == [owner_id |-> owner_id, settings |-> dict]

\* Settings.get_for_owner("tenant", owner_id): the row indexes the query matches.
get_for_owner(rows, owner_id) ==
    {i \in 1..Len(rows) : rows[i].owner_id = owner_id}

\* dict.update(new_settings)
DictUpdate(dict, new_settings) ==
    [k \in SettingKeys |-> IF new_settings[k] # Absent THEN new_settings[k] ELSE dict[k]]

\* The "settings" objects of PUT /api/settings/tenant/<tenant_id> bodies.
SettingsBodies == {[NoSettings EXCEPT !["k1"] = "v1"]}

\* GET /api/settings/tenant/<tenant_id>: jwt_required only.
GetSettings(caller, tenant_id) ==
    LET target == IF tenant_id \in DOMAIN tenants THEN tenant_id ELSE NoTenant
    IN  resp' = IF caller = Anonymous THEN Unauthorized("get_settings", target)
                ELSE Resp("get_settings", caller, target, NoTenant, "none", FALSE,
                          200, "none", TRUE, FALSE)

GetSettingsRequest ==
    /\ \E caller \in Callers, tenant_id \in SettingsOwners : GetSettings(caller, tenant_id)
    /\ UNCHANGED <<tenants, users, roles, user_tenant_roles, settings>>

\* PUT /api/settings/tenant/<tenant_id>: jwt_required only. A new row is
\* inserted with the updated object; the object of a loaded row is changed in
\* place, which the JSON column does not track, so the commit writes nothing.
UpdateSettings(caller, tenant_id, new_settings) ==
    LET target == IF tenant_id \in DOMAIN tenants THEN tenant_id ELSE NoTenant
    IN  IF caller = Anonymous
        THEN /\ resp' = Unauthorized("update_settings", target)
             /\ UNCHANGED settings
        ELSE /\ \E i \in First(get_for_owner(settings, tenant_id)) :
                  IF i = 0
                  THEN /\ Len(settings) < MaxSettingsRows
                       /\ settings' = Append(settings,
                              SettingsRow(tenant_id, DictUpdate(NoSettings, new_settings)))
                  ELSE UNCHANGED settings
             /\ resp' = Resp("update_settings", caller, target, NoTenant, "none", FALSE,
                             200, "none", TRUE, FALSE)

UpdateSettingsRequest ==
    /\ \E caller \in Callers, tenant_id \in SettingsOwners, new_settings \in SettingsBodies :
         UpdateSettings(caller, tenant_id, new_settings)
    /\ UNCHANGED <<tenants, users, roles, user_tenant_roles>>

\* user.add_tenant_role(tenant, role, is_primary) called on the model.
AddTenantRoleCall ==
    /\ \E u \in DOMAIN users, t \in DOMAIN tenants, is_primary \in BOOLEAN :
       \E r \in {q \in DOMAIN roles : roles[q].name = "user" /\ roles[q].tenant_id = t} :
         IF TenantRows(user_tenant_roles, u, t) # {}
         THEN /\ resp' = Resp("add_tenant_role", u, t, NoTenant, "none", FALSE,
                              0, "ValueError", TRUE, FALSE)
              /\ UNCHANGED user_tenant_roles
         ELSE \E current_primary \in First(PrimaryRows(user_tenant_roles, u)) :
              /\ user_tenant_roles' =
                   add_tenant_role(user_tenant_roles, u, t, r, is_primary, current_primary)
              /\ resp' = Resp("add_tenant_role", u, t, NoTenant, "none", FALSE,
                              0, "none", TRUE, FALSE)
    /\ UNCHANGED <<tenants, users, roles, settings>>

\* The permissions objects a role is given.
GrantedPermissions ==
    {RolePermissions([use_feature_x |-> "true", view_users |-> "true"])}

\* role.update_permissions(permissions_dict) called on the model.
UpdatePermissionsCall ==
    /\ \E r \in {q \in DOMAIN roles : roles[q].name = "user"},
          permissions_dict \in GrantedPermissions :
         /\ roles' = [roles EXCEPT ![r].permissions = permissions_dict]
         /\ resp' = Resp("update_permissions", NoUser, roles[r].tenant_id, NoTenant,
                         "none", FALSE, 0, "none", TRUE, FALSE)
    /\ UNCHANGED <<tenants, users, user_tenant_roles, settings>>

(***************************************************************************)
(* Concurrent POST /api/auth/switch-tenant requests of one user            *)
(* (User.switch_primary_tenant, app/models/user.py). Each request has its  *)
(* own session; a query reads the committed table, an object already in    *)
(* the session's identity map keeps the attribute values it was loaded     *)
(* with, and commit writes the attributes whose value differs from the     *)
(* loaded one.                                                             *)
(***************************************************************************)

SWWorkers == {"w1", "w2"}

\* The user whose requests race, and the tenants they switch to.
SwitchUser == "u1"
SwitchTenants == {"t1", "t2", "t3"}

SWIdle == [pc |-> "idle", tenant_id |-> NoTenant, new_primary |-> 0,
           current_primary |-> 0, loaded_new |-> FALSE, loaded_current |-> FALSE,
           status |-> 0]

InitSWIdle == sw = [w \in SWWorkers |-> SWIdle]

\* SwitchUser holds an association in every tenant; the first is the primary.
InitSwitchDB ==
    /\ app_debug = FALSE
    /\ tr = [w \in TRWorkers |-> TRIdle]
    /\ tenants = [t \in SwitchTenants |->
                    [name |-> t, subdomain |-> t, is_active |-> TRUE]]
    /\ users = [u \in {SwitchUser} |-> UserRow("a@x", TRUE, TRUE, "none")]
    /\ roles = SeedRoles
    /\ user_tenant_roles = <<UserTenantRole(SwitchUser, "t1", "r1a", TRUE),
                             UserTenantRole(SwitchUser, "t2", "r2a", FALSE),
                             UserTenantRole(SwitchUser, "t3", "r2u", FALSE)>>
    /\ settings = <<>>
    /\ resp = NoResp

\* switch_tenant: the JWT, the user and the tenant are found.
SWStart(w) ==
    /\ sw[w].pc \in {"idle", "done"}
    /\ \E tenant_id \in SwitchTenants :
         sw' = [sw EXCEPT ![w] = [SWIdle EXCEPT !.pc = "find_new", !.tenant_id = tenant_id]]
    /\ UNCHANGED user_tenant_roles

\* new_primary = self.tenant_roles.filter_by(tenant_id=tenant.id).first()
SWFindNew(w) ==
    /\ sw[w].pc = "find_new"
    /\ \E i \in First(TenantRows(user_tenant_roles, SwitchUser, sw[w].tenant_id)) :
         sw' = IF i = 0
               THEN [sw EXCEPT ![w].pc = "done", ![w].status = 400]
               ELSE [sw EXCEPT ![w].pc = "find_current", ![w].new_primary = i,
                               ![w].loaded_new = user_tenant_roles[i].is_primary]
    /\ UNCHANGED user_tenant_roles

\* current_primary = self.tenant_roles.filter_by(is_primary=True).first()
SWFindCurrent(w) ==
    /\ sw[w].pc = "find_current"
    /\ \E j \in First(PrimaryRows(user_tenant_roles, SwitchUser)) :
         sw' = [sw EXCEPT ![w].pc = "commit", ![w].current_primary = j,
                          ![w].loaded_current =
                              IF j = sw[w].new_primary THEN sw[w].loaded_new ELSE j # 0]
    /\ UNCHANGED user_tenant_roles

\* The rows a commit writes: current_primary.is_primary = False, then
\* new_primary.is_primary = True, flushed where the value differs from the loaded one.
Flush(rows, s) ==
    [i \in 1..Len(rows) |->
        IF i = s.new_primary
        THEN IF s.loaded_new # TRUE THEN [rows[i] EXCEPT !.is_primary = TRUE] ELSE rows[i]
        ELSE IF i = s.current_primary
        THEN IF s.loaded_current # FALSE THEN [rows[i] EXCEPT !.is_primary = FALSE]
             ELSE rows[i]
        ELSE rows[i]]

\* db.session.commit() in switch_primary_tenant, then the response.
SWCommit(w) ==
    /\ sw[w].pc = "commit"
    /\ user_tenant_roles' = Flush(user_tenant_roles, sw[w])
    /\ sw' = [sw EXCEPT ![w].pc = "done", ![w].status = 200]

(***************************************************************************)
(* Specifications                                                          *)
(***************************************************************************)
(* Concurrent single-key settings requests (app/api/settings/routes.py):   *)
(* each request has its own SQLAlchemy session; a row is read by           *)
(* get_for_owner and written back, as a whole JSON object, at the commit.  *)
(***************************************************************************)

SRWorkers == {"w1", "w2"}

SRIdle == [pc |-> "idle", op |-> "none", owner_id |-> "none", key |-> "none",
           value |-> Absent, row |-> 0, loaded |-> NoSettings, status |-> 0]

InitSRIdle == sr = [w \in SRWorkers |-> SRIdle]

\* The settings table when requests arrive: empty, or one row of tenant t1.
InitSettingsDB ==
    /\ app_debug = FALSE
    /\ tenants = SeedTenants
    /\ tr = [w \in TRWorkers |-> TRIdle]
    /\ users = [u \in {"u1"} |-> UserRow("a@x", TRUE, TRUE, "none")]
    /\ roles = SeedRoles
    /\ user_tenant_roles = <<UserTenantRole("u1", "t1", "r1a", TRUE)>>
    /\ settings \in {<<>>, <<SettingsRow("t1", [k \in SettingKeys |-> "v1"])>>}
    /\ resp = NoResp

\* A single-key request arrives: PUT or DELETE /api/settings/tenant/<id>/<key>.
SRStart(w) ==
    /\ sr[w].pc \in {"idle", "done"}
    /\ \E op \in {"update_setting", "delete_setting"}, owner_id \in SettingsOwners,
          key \in SettingKeys, value \in SettingsValues :
         sr' = [sr EXCEPT ![w] = [SRIdle EXCEPT !.pc = "load", !.op = op,
                                    !.owner_id = owner_id, !.key = key,
                                    !.value = IF op = "update_setting" THEN value
                                              ELSE Absent]]
    /\ UNCHANGED settings

\* settings = Settings.get_for_owner("tenant", tenant_id); delete_setting
\* raises APIError 404 when there is no row or the key is not in it.
SRLoad(w) ==
    /\ sr[w].pc = "load"
    /\ \E i \in First(get_for_owner(settings, sr[w].owner_id)) :
         LET loaded == IF i = 0 THEN NoSettings ELSE settings[i].settings
         IN  sr' = [sr EXCEPT ![w] =
                      IF sr[w].op = "delete_setting" /\ (i = 0 \/ loaded[sr[w].key] = Absent)
                      THEN [@ EXCEPT !.pc = "done", !.status = 404]
                      ELSE [@ EXCEPT !.pc = "commit", !.row = i, !.loaded = loaded]]
    /\ UNCHANGED settings

\* db.session.commit(): update_setting inserts the row it created and writes
\* nothing for a loaded row (set_setting changes the object in place);
\* delete_setting assigns the object without the key, which is written whole.
SRCommit(w) ==
    /\ sr[w].pc = "commit"
    /\ IF sr[w].op = "delete_setting"
       THEN /\ settings' = [settings EXCEPT ![sr[w].row].settings =
                                [sr[w].loaded EXCEPT ![sr[w].key] = Absent]]
            /\ sr' = [sr EXCEPT ![w].pc = "done", ![w].status = 204,
                               ![w].row = 0, ![w].loaded = NoSettings]
       ELSE /\ IF sr[w].row = 0
               THEN /\ Len(settings) < MaxSettingsRows
                    /\ settings' = Append(settings,
                           SettingsRow(sr[w].owner_id,
                                       [NoSettings EXCEPT ![sr[w].key] = sr[w].value]))
               ELSE UNCHANGED settings
            /\ sr' = [sr EXCEPT ![w].pc = "done", ![w].status = 200,
                               ![w].row = 0, ![w].loaded = NoSettings]

(***************************************************************************)
(* The way out of a request (create_app in app/__init__.py): the stage     *)
(* that answers returns a response or raises, a raised exception is turned *)
(* into a response by the registered error handler, and the after_request  *)
(* function of SecurityHeaders.init_app is applied to the response.        *)
(***************************************************************************)

Methods == {"GET", "POST", "PUT", "DELETE"}

\* The stages that can answer a request, and how each one answers: by raising
\* (error, status_code of an APIError) or by returning a response.
StageAnswers ==
    {[stage |-> "validation", raised |-> TRUE, error |-> "RequestEntityTooLarge",
      status |-> 0],
     [stage |-> "routing", raised |-> TRUE, error |-> "NotFound", status |-> 0],
     [stage |-> "authentication", raised |-> TRUE, error |-> "Unauthorized", status |-> 401],
     [stage |-> "tenant_resolution", raised |-> TRUE, error |-> "TenantNotFound",
      status |-> 0],
     [stage |-> "tenant_resolution", raised |-> TRUE, error |-> "InactiveTenant",
      status |-> 0],
     [stage |-> "authorization", raised |-> TRUE, error |-> "PermissionDenied",
      status |-> 0],
     [stage |-> "rate_limiting", raised |-> FALSE, error |-> "none", status |-> 429],
     [stage |-> "handler", raised |-> TRUE, error |-> "APIError", status |-> 400],
     [stage |-> "handler", raised |-> TRUE, error |-> "APIError", status |-> 404],
     [stage |-> "handler", raised |-> TRUE, error |-> "AttributeError", status |-> 0],
     [stage |-> "handler", raised |-> FALSE, error |-> "none", status |-> 200],
     [stage |-> "handler", raised |-> FALSE, error |-> "none", status |-> 201],
     [stage |-> "handler", raised |-> FALSE, error |-> "none", status |-> 204]}

\* The headers RateLimiter.limit puts on the response it returns.
RateLimitHeaders ==
    {"X-RateLimit-Limit", "X-RateLimit-Remaining", "X-RateLimit-Reset", "Retry-After"}

\* SecurityMiddleware.security_headers, which tenant_required applies to the
\* Response object a handler returned.
security_headers(headers) ==
    headers \cup {"Strict-Transport-Security", "X-Content-Type-Options", "X-Frame-Options",
                  "X-XSS-Protection", "Content-Security-Policy", "Referrer-Policy"}

add_security_headers_unless_error(headers, status, debug) ==
    IF status >= 400 THEN headers
    ELSE headers \cup {"X-Frame-Options", "X-Content-Type-Options", "X-XSS-Protection",
                       "Content-Security-Policy", "Referrer-Policy", "Permissions-Policy"}
                 \cup (IF debug THEN {} ELSE {"Strict-Transport-Security"})

\* SecurityHeaders.init_app.add_security_headers(response)
add_security_headers(headers, status, debug) ==
    headers \cup {"X-Frame-Options", "X-Content-Type-Options", "X-XSS-Protection",
                  "Content-Security-Policy", "Referrer-Policy", "Permissions-Policy"}
            \cup (IF debug THEN {} ELSE {"Strict-Transport-Security"})

HTTPIdle == [pc |-> "idle", method |-> "none", stage |-> "none", by |-> "none",
             status |-> 0, headers |-> {}]

InitHTTPIdle == http = HTTPIdle

\* A request is answered: by the error handler of the exception a stage
\* raised (JWT errors by the handlers JWTManager registers), or by the
\* response a stage returned; behind_tenant_required says whether the handler
\* returned a Response object through tenant_required.
HTTPDispatch ==
    /\ http.pc \in {"idle", "sent"}
    /\ \E method \in Methods, a \in StageAnswers, behind_tenant_required \in BOOLEAN :
         /\ behind_tenant_required => (a.stage = "handler" /\ ~a.raised /\ a.status = 200)
         /\ http' = [pc |-> "response", method |-> method, stage |-> a.stage,
                     by |-> IF a.raised THEN "error_handler" ELSE a.stage,
                     status |-> IF ~a.raised \/ a.error = "Unauthorized" THEN a.status
                                ELSE ErrorStatus(a.error, a.status),
                     headers |-> IF a.stage = "rate_limiting" THEN RateLimitHeaders
                                 ELSE IF behind_tenant_required THEN security_headers({})
                                 ELSE {}]

\* finalize_request: the after_request function runs on the response.
HTTPFinalize ==
    /\ http.pc = "response"
    /\ http' = [http EXCEPT !.pc = "sent",
                            !.headers = add_security_headers(@, http.status, app_debug)]

(***************************************************************************)
(* audit_action.decorated_function (app/core/audit.py) around the handlers *)
(* of the user routes. Until decorated_function returns, resp holds the    *)
(* value the handler returned; afterwards what the client receives.        *)
(***************************************************************************)

\* The attributes class AuditLog(db.Model) defines besides its columns.
AuditLogAttributes == {"log_action", "to_dict"}

\* @audit_action(action, entity_type, get_entity_id) of a route; get_entity_id
\* of create_user is lambda r: r.get_json().get("id").
AuditedRoutes ==
    [list_users |-> [action |-> "list", entity_type |-> "users", get_entity_id |-> FALSE],
     create_user |-> [action |-> "create", entity_type |-> "user", get_entity_id |-> TRUE]]

\* The AuditLog row audit_action builds for a request.
AuditLogRow(route, tenant_id, user_id) ==
    [action |-> AuditedRoutes[route].action,
     entity_type |-> AuditedRoutes[route].entity_type,
     tenant_id |-> tenant_id, user_id |-> user_id, endpoint |-> route]

AUIdle == [pc |-> "idle", response |-> NoResp, committed |-> <<>>, rows_before |-> 0,
           failed |-> FALSE]

InitAUIdle == audit_logs = <<>> /\ au = AUIdle

ATRWorkers == {"w1", "w2"}

ATRIdle == [pc |-> "idle", user |-> NoUser, tenant |-> NoTenant, role |-> NoRole,
            is_primary |-> FALSE, current_primary |-> 0, raised |-> "none"]

InitATRIdle == atr = [w \in ATRWorkers |-> ATRIdle]

(***************************************************************************)
(* Request sanitization (app/core/security/sanitization.py). A string is   *)
(* a sequence of lexemes: control characters, text, the characters < > &,  *)
(* the text of an entity name with its semicolon, a tag name, and whole    *)
(* <p> and </p> tags. A JSON value is a string, a number, a list or an     *)
(* object.                                                                 *)
(***************************************************************************)

MaxStrLen == 3

\* The lexemes request strings are made of.
Lexemes == {"NUL", "BEL", "a", "<", ">", "&", "amp;", "img", "<p>", "</p>"}

\* \x00 and the other characters below ' ' except \n and \t.
ControlChars == {"BEL"}
EntityNames == {"amp;", "lt;", "gt;"}
\* Names of tags that are not in allowed_tags.
StrippedTagNames == {"img"}

StringsUpTo(n) == UNION {[1..k -> Lexemes] : k \in 0..n}

\* The index of the first ">" of s at or after i, 0 when there is none.
TagEnd(s, i) ==
    LET ends == {j \in i..Len(s) : s[j] = ">"}
    IN  IF ends = {} THEN 0 ELSE CHOOSE j \in ends : \A k \in ends : j <= k

match_entity_never(s, i) == FALSE

\* An & that starts an entity: it is followed by an entity name and its semicolon.
match_entity(s, i) == i < Len(s) /\ s[i + 1] \in EntityNames

RECURSIVE bleach_clean_from(_, _, _)
\* bleach.clean(value, tags=self.allowed_tags, strip=True) from lexeme i on,
\* with a <p> element open or not: a tag that is not allowed is removed, an
\* unfinished one is character data, allowed tags are kept and balanced,
\* < > and & in character data are written as entities, entities are kept.
bleach_clean_from(s, i, open) ==
    IF i > Len(s) THEN IF open THEN <<"</p>">> ELSE <<>>
    ELSE LET c == s[i]
         IN  IF c = "<" /\ i < Len(s) /\ s[i + 1] \in StrippedTagNames
             THEN IF TagEnd(s, i) = 0
                  THEN <<"&", "lt;">> \o bleach_clean_from(s, i + 1, open)
                  ELSE bleach_clean_from(s, TagEnd(s, i) + 1, open)
             ELSE IF c = "<" THEN <<"&", "lt;">> \o bleach_clean_from(s, i + 1, open)
             ELSE IF c = ">" THEN <<"&", "gt;">> \o bleach_clean_from(s, i + 1, open)
             ELSE IF c = "&"
             THEN IF match_entity(s, i)
                  THEN <<"&", s[i + 1]>> \o bleach_clean_from(s, i + 2, open)
                  ELSE <<"&", "amp;">> \o bleach_clean_from(s, i + 1, open)
             ELSE IF c = "<p>"
             THEN (IF open THEN <<"</p>", "<p>">> ELSE <<"<p>">>)
                  \o bleach_clean_from(s, i + 1, TRUE)
             ELSE IF c = "</p>"
             THEN (IF open THEN <<"</p>">> ELSE <<"<p>", "</p>">>)
                  \o bleach_clean_from(s, i + 1, FALSE)
             ELSE <<c>> \o bleach_clean_from(s, i + 1, open)

bleach_clean(s) == bleach_clean_from(s, 1, FALSE)

\* RequestSanitizer.sanitize_string on a str.
sanitize_string(value) ==
    LET no_nul == SelectSeq(value, LAMBDA c : c # "NUL")
        printable == SelectSeq(no_nul, LAMBDA c : c \notin ControlChars)
    IN  bleach_clean(printable)

\* JSON values.
JStr(s) == [kind |-> "str", str |-> s, num |-> 0, keys |-> <<>>, items |-> <<>>]
JNum(n) == [kind |-> "num", str |-> <<>>, num |-> n, keys |-> <<>>, items |-> <<>>]
JList(items) == [kind |-> "list", str |-> <<>>, num |-> 0, keys |-> <<>>, items |-> items]
JDict(keys, items) == [kind |-> "dict", str |-> <<>>, num |-> 0, keys |-> keys, items |-> items]
NoBody == [kind |-> "none", str |-> <<>>, num |-> 0, keys |-> <<>>, items |-> <<>>]

RECURSIVE sanitize_data(_)
\* sanitize_data(obj) inside sanitize_request
sanitize_data(obj) ==
    IF obj.kind = "str" THEN JStr(sanitize_string(obj.str))
    ELSE IF obj.kind \in {"dict", "list"}
    THEN [obj EXCEPT !.items = [i \in 1..Len(obj.items) |-> sanitize_data(obj.items[i])]]
    ELSE obj

\* if data: (an empty string, object or list, and 0, are falsy)
JsonTruthy(obj) ==
    \/ obj.kind = "str" /\ obj.str # <<>>
    \/ obj.kind = "num" /\ obj.num # 0
    \/ obj.kind \in {"dict", "list"} /\ obj.items # <<>>

\* The JSON bodies requests carry: a string alone, in a list next to a
\* number, and in an object inside a list inside an object.
JsonBodies(strings) ==
    {JStr(x) : x \in strings}
    \cup {JList(<<JNum(7), JStr(x)>>) : x \in strings}
    \cup {JDict(<<"user">>, <<JList(<<JDict(<<"bio", "age">>, <<JStr(x), JNum(7)>>)>>)>>) :
             x \in strings}

\* Request paths, as sequences of pieces, and the exempt_paths of create_app:
\* r"/api/webhooks/.*", r"/api/files/upload", r"/api/health".
RequestPaths ==
    {<<"/api", "/users">>, <<"/api", "/webhooks", "/", "stripe">>,
     <<"/api", "/files", "/upload">>, <<"/api", "/health", "z">>}

ExemptPatterns ==
    {<<"/api", "/webhooks", "/">>, <<"/api", "/files", "/upload">>, <<"/api", "/health">>}

\* re.match(path, request.path): the pattern matches at the start of the path.
ReMatch(pattern, path) ==
    Len(pattern) <= Len(path) /\ SubSeq(path, 1, Len(pattern)) = pattern

IsExempt(path) == \E pattern \in ExemptPatterns : ReMatch(pattern, path)

SanitizedMethods == {"POST", "PUT", "PATCH"}
RequestMethods == {"GET", "POST", "PUT", "DELETE"}
ContentTypes == {"application/json", "application/xml", "text/plain"}
AllowedContentTypes ==
    {"application/json", "multipart/form-data", "application/x-www-form-urlencoded",
     "text/plain"}

SZIdle == [pc |-> "idle", path |-> <<>>, method |-> "none", content_type |-> "none",
           too_large |-> FALSE, body |-> NoBody, seen |-> NoBody, status |-> 0,
           again |-> NoBody]

InitSZIdle == sz = SZIdle

\* sanitize_request.decorated_function around a handler that reads
\* request.get_json(): the status it aborts with, or the body the handler sees.
decorated_sanitize(path, method, content_type, too_large, body) ==
    IF IsExempt(path) THEN [status |-> 200, seen |-> body]
    ELSE IF method \notin SanitizedMethods THEN [status |-> 200, seen |-> body]
    ELSE IF too_large THEN [status |-> 413, seen |-> NoBody]
    ELSE IF content_type \notin AllowedContentTypes THEN [status |-> 415, seen |-> NoBody]
    ELSE IF content_type = "application/json" /\ JsonTruthy(body)
    THEN [status |-> 200, seen |-> sanitize_data(body)]
    ELSE [status |-> 200, seen |-> body]

\* A request with a JSON body arrives and passes sanitize_api_requests.
SZRequest ==
    /\ sz.pc = "idle"
    /\ \E path \in RequestPaths, method \in RequestMethods, content_type \in ContentTypes,
          too_large \in BOOLEAN, body \in JsonBodies(StringsUpTo(MaxStrLen)) :
         LET r == decorated_sanitize(path, method, content_type, too_large, body)
         IN  sz' = [SZIdle EXCEPT !.pc = "handled", !.path = path, !.method = method,
                                  !.content_type = content_type, !.too_large = too_large,
                                  !.body = body, !.seen = r.seen, !.status = r.status]

\* The body the handler saw is sent again, in the same request.
SZResubmit ==
    /\ sz.pc = "handled"
    /\ sz.status = 200
    /\ sz' = [sz EXCEPT !.pc = "resubmitted",
                         !.again = decorated_sanitize(sz.path, sz.method, sz.content_type,
                                                      sz.too_large, sz.seen).seen]

InitMoreIdle == InitATRIdle /\ InitSZIdle /\ g_kept = Unset

InitExtIdle == InitSRIdle /\ InitAUIdle /\ InitHTTPIdle /\ InitMoreIdle

\* The handler's return value is a (body, status) tuple.
IsTuple(response) == response.status = 201

\* response = f(*args, **kwargs): the handler of an audited route runs behind
\* jwt_required, tenant_required and require_permission; a refusal or an
\* exception of the handler never enters the lines after the call.
AUHandler ==
    /\ au.pc = "idle"
    /\ \/ ListUsersRequest
       \/ CreateUserRequest
    /\ au' = IF resp'.ran /\ resp'.status \in {200, 201}
             THEN [pc |-> "commit", response |-> resp',
                   committed |-> <<users', user_tenant_roles'>>,
                   rows_before |-> Len(audit_logs), failed |-> FALSE]
             ELSE AUIdle
    /\ UNCHANGED audit_logs

\* db.session.commit() in the outer try; an exception goes to the outer except.
AUCommit ==
    /\ au.pc = "commit"
    /\ \E raised \in BOOLEAN :
         au' = IF raised THEN [au EXCEPT !.pc = "return", !.failed = TRUE]
               ELSE [au EXCEPT !.pc = "fields"]
    /\ UNCHANGED <<audit_logs, varsDB, tenants>>

\* tenant_id, user_id and entity_id = get_entity_id(response): a tuple has no
\* get_json, so the lambda raises and the inner except rolls back.
AUFields ==
    /\ au.pc = "fields"
    /\ au' = IF AuditedRoutes[au.response.route].get_entity_id /\ IsTuple(au.response)
             THEN [au EXCEPT !.pc = "return", !.failed = TRUE]
             ELSE [au EXCEPT !.pc = "create"]
    /\ UNCHANGED <<audit_logs, varsDB, tenants>>

\* db.session.begin_nested(); AuditLog.create(...); db.session.commit(); the
\* AttributeError of a class without create goes to the inner except.
AUCreate ==
    /\ au.pc = "create"
    /\ IF "create" \in AuditLogAttributes
       THEN /\ audit_logs' = Append(audit_logs,
                                    AuditLogRow(au.response.route, au.response.tenant,
                                                au.response.caller))
            /\ au' = [au EXCEPT !.pc = "return"]
       ELSE /\ au' = [au EXCEPT !.pc = "return", !.failed = TRUE]
            /\ UNCHANGED audit_logs
    /\ UNCHANGED <<varsDB, tenants>>

decorated_function_reraises(response, failed) ==
    IF failed
    THEN [response EXCEPT !.status = 500, !.error = "AuditError"]
    ELSE response

\* return response, after the except clauses logged a failure of the audit.
decorated_function(response, failed) == response

AUReturn ==
    /\ au.pc = "return"
    /\ resp' = decorated_function(au.response, au.failed)
    /\ au' = [au EXCEPT !.pc = "idle"]
    /\ UNCHANGED <<audit_logs, tenants, users, roles, user_tenant_roles, settings>>

(***************************************************************************)

\* Role.has_permission on every bounded permissions object.
InitRole == InitRoleInputs /\ InitRLIdle /\ InitTRIdle /\ InitDBIdle /\ InitSWIdle /\ InitExtIdle

NextRole == HasPermissionCall /\ UNCHANGED <<varsRL, varsTR, varsDB, sw, varsExt>>

SpecRole == InitRole /\ [][NextRole]_vars

\* The rate limiter over a store whose calls may fail.
InitLimiter == InitRL /\ InitRoleIdle /\ InitTRIdle /\ InitDBIdle /\ InitSWIdle /\ InitExtIdle

NextRL ==
    /\ UNCHANGED <<varsRole, varsTR, varsDB, sw, varsExt>>
    /\ \/ \E w \in RLWorkers :
            \/ RLStart(w)
            \/ RLIncr(w)
            \/ RLExpire(w)
            \/ RLHeaders(w)
            \/ RLDenyBody(w)
            \/ RLDeny(w)
            \/ RLStoreFails(w)
            \/ RLHandler(w)
            \/ RLFallback(w)
            \/ RLDirect(w)
       \/ RLTick

SpecRL == InitLimiter /\ [][NextRL]_vars

\* The rate limiter, enabled, over a store that answers every call.
InitLimiterHealthy == InitRLIdle /\ InitRoleIdle /\ InitTRIdle /\ InitDBIdle /\ InitSWIdle /\ InitExtIdle

NextRLHealthy ==
    /\ UNCHANGED <<varsRole, varsTR, varsDB, sw, varsExt>>
    /\ \/ \E w \in RLWorkers :
            \/ RLStart(w)
            \/ RLIncr(w)
            \/ RLExpire(w)
            \/ RLHeaders(w)
            \/ RLDenyBody(w)
            \/ RLDeny(w)
            \/ RLHandler(w)
            \/ RLFallback(w)
       \/ RLTick

SpecRLHealthy == InitLimiterHealthy /\ [][NextRLHealthy]_vars

\* Tenant resolution by concurrent requests.
InitTenant == InitTR /\ InitRoleIdle /\ InitRLIdle /\ InitDBIdle /\ InitSWIdle /\ InitExtIdle

NextTR ==
    /\ UNCHANGED <<varsRole, varsRL, varsDB, sw, varsExt>>
    /\ \E w \in TRWorkers :
          \/ TRStart(w)
          \/ TRHeader(w)
          \/ TRFirstActive(w)
          \/ TRAnyTenant(w)
          \/ TRCreateDevelopment(w)
          \/ TRHost(w)

SpecTenant == InitTenant /\ [][NextTR]_vars

\* A database for the request specifications: u1 admin of tenants t1 and t2,
\* u2 a plain user of t2 only; t2 and u2 active or not, u2's association
\* primary or not.
InitApi(t2_actives, u2_actives, u2_primaries) ==
    /\ app_debug = FALSE
    /\ tr = [w \in TRWorkers |-> TRIdle]
    /\ \E t2_active \in t2_actives :
         tenants = [t1 |-> [name |-> "Acme", subdomain |-> "acme", is_active |-> TRUE],
                    t2 |-> [name |-> "Beta", subdomain |-> "beta", is_active |-> t2_active]]
    /\ \E u2_active \in u2_actives :
         users = [u1 |-> UserRow("a@x", TRUE, TRUE, "none"),
                  u2 |-> UserRow("b@x", u2_active, TRUE, "g2")]
    /\ roles = SeedRoles
    /\ \E u2_primary \in u2_primaries :
         user_tenant_roles = <<UserTenantRole("u1", "t1", "r1a", TRUE),
                               UserTenantRole("u1", "t2", "r2a", FALSE),
                               UserTenantRole("u2", "t2", "r2u", u2_primary)>>
    /\ settings = <<>>
    /\ resp = NoResp

\* The operations that create or change associations, one request at a time.
InitAssoc == InitApi({TRUE}, {TRUE}, BOOLEAN) /\ InitRoleIdle /\ InitRLIdle /\ InitSWIdle /\ InitExtIdle

NextAssoc ==
    /\ UNCHANGED <<varsRole, varsRL, app_debug, tr, sw, varsExt>>
    /\ \/ LoginRequest
       \/ GoogleAuthRequest
       \/ SwitchTenantRequest
       \/ CreateUserRequest
       \/ CreateTenantRequest
       \/ AddTenantRoleCall

SpecAssoc == InitAssoc /\ [][NextAssoc]_vars

\* External-identity logins and tenant switches, one request at a time, next
\* to direct grants.
InitExternal == InitApi({TRUE}, {TRUE}, BOOLEAN) /\ InitRoleIdle /\ InitRLIdle /\ InitSWIdle /\ InitExtIdle

NextExternal ==
    /\ UNCHANGED <<varsRole, varsRL, app_debug, tr, sw, varsExt>>
    /\ \/ GoogleAuthRepeated
       \/ SwitchTenantRequest
       \/ AddTenantRoleCall

SpecExternal == InitExternal /\ [][NextExternal]_vars

\* Requests for tenant data and logins, one request at a time.
InitAccess == InitApi(BOOLEAN, BOOLEAN, {TRUE}) /\ InitRoleIdle /\ InitRLIdle /\ InitSWIdle /\ InitExtIdle

NextAccess ==
    /\ UNCHANGED <<varsRole, varsRL, app_debug, tr, sw, varsExt>>
    /\ \/ LoginRequest
       \/ GetCurrentUserRequest
       \/ SwitchTenantRequest
       \/ ListUsersRequest
       \/ GetTenantRequest
       \/ GetSettingsRequest
       \/ UpdateSettingsRequest
       \/ UpdatePermissionsCall

SpecAccess == InitAccess /\ [][NextAccess]_vars

\* Concurrent single-key settings requests.
InitSettings ==
    /\ InitSettingsDB /\ InitSRIdle /\ InitAUIdle /\ InitHTTPIdle /\ InitMoreIdle
    /\ InitSWIdle /\ InitRoleIdle /\ InitRLIdle

NextSettings ==
    /\ UNCHANGED <<varsRole, varsRL, varsTR, users, roles, user_tenant_roles, resp, sw,
                   varsAudit, http, varsMore>>
    /\ \E w \in SRWorkers :
          \/ SRStart(w)
          \/ SRLoad(w)
          \/ SRCommit(w)

SpecSettings == InitSettings /\ [][NextSettings]_vars

\* Requests on the audited user routes, one request at a time.
InitAudit ==
    /\ InitApi(BOOLEAN, {TRUE}, BOOLEAN)
    /\ InitRoleIdle /\ InitRLIdle /\ InitSWIdle /\ InitExtIdle

NextAudit ==
    /\ UNCHANGED <<varsRole, varsRL, app_debug, tr, sw, sr, http, varsMore>>
    /\ \/ AUHandler
       \/ AUCommit
       \/ AUFields
       \/ AUCreate
       \/ AUReturn

SpecAudit == InitAudit /\ [][NextAudit]_vars

\* Requests answered by any stage, with debug on or off.
InitHeaders ==
    /\ app_debug \in BOOLEAN
    /\ tenants = SeedTenants
    /\ tr = [w \in TRWorkers |-> TRIdle]
    /\ InitDBIdle /\ InitRoleIdle /\ InitRLIdle /\ InitSWIdle /\ InitExtIdle

NextHeaders ==
    /\ UNCHANGED <<varsRole, varsRL, varsTR, varsDB, sw, sr, varsAudit, varsMore>>
    /\ \/ HTTPDispatch
       \/ HTTPFinalize

SpecHeaders == InitHeaders /\ [][NextHeaders]_vars

\* Concurrent switch-tenant requests of one user.
InitSwitch == InitSwitchDB /\ InitSWIdle /\ InitRoleIdle /\ InitRLIdle /\ InitExtIdle

NextSwitch ==
    /\ UNCHANGED <<varsRole, varsRL, varsTR, users, roles, settings, resp, varsExt>>
    /\ \E w \in SWWorkers :
          \/ SWStart(w)
          \/ SWFindNew(w)
          \/ SWFindCurrent(w)
          \/ SWCommit(w)

SpecSwitch == InitSwitch /\ [][NextSwitch]_vars

(***************************************************************************)
(* Concurrent User.add_tenant_role calls (app/models/user.py), as made by  *)
(* concurrent external logins of one user at a tenant they have no role    *)
(* in. Each call has its own session: a query reads the committed table,   *)
(* the commit inserts the new row and writes the cleared primary flag.     *)
(***************************************************************************)

\* google_auth reaches user.add_tenant_role(g.tenant, default_role, is_primary).
ATRStart(w) ==
    /\ atr[w].pc \in {"idle", "done"}
    /\ \E u \in DOMAIN users, t \in DOMAIN tenants, is_primary \in BOOLEAN :
       \E r \in {q \in DOMAIN roles : roles[q].name = "user" /\ roles[q].tenant_id = t} :
         atr' = [atr EXCEPT ![w] = [ATRIdle EXCEPT !.pc = "check", !.user = u,
                                                   !.tenant = t, !.role = r,
                                                   !.is_primary = is_primary]]
    /\ UNCHANGED user_tenant_roles

\* existing = self.tenant_roles.filter_by(tenant_id=tenant.id).all()
\* if existing: raise ValueError
ATRCheck(w) ==
    /\ atr[w].pc = "check"
    /\ atr' = IF TenantRows(user_tenant_roles, atr[w].user, atr[w].tenant) # {}
              THEN [atr EXCEPT ![w].pc = "done", ![w].raised = "ValueError"]
              ELSE [atr EXCEPT ![w].pc = IF atr[w].is_primary THEN "primary" ELSE "commit"]
    /\ UNCHANGED user_tenant_roles

\* current_primary = self.tenant_roles.filter_by(is_primary=True).first()
ATRFindPrimary(w) ==
    /\ atr[w].pc = "primary"
    /\ \E j \in First(PrimaryRows(user_tenant_roles, atr[w].user)) :
         atr' = [atr EXCEPT ![w].pc = "commit", ![w].current_primary = j]
    /\ UNCHANGED user_tenant_roles

\* db.session.add(tenant_role); db.session.commit()
ATRCommit(w) ==
    /\ atr[w].pc = "commit"
    /\ user_tenant_roles' =
         add_tenant_role(user_tenant_roles, atr[w].user, atr[w].tenant, atr[w].role,
                         atr[w].is_primary, atr[w].current_primary)
    /\ atr' = [atr EXCEPT ![w].pc = "done"]

InitGrant ==
    /\ InitApi({TRUE}, {TRUE}, BOOLEAN)
    /\ InitRoleIdle /\ InitRLIdle /\ InitSWIdle /\ InitExtIdle

NextGrant ==
    /\ UNCHANGED <<varsRole, varsRL, varsTR, users, roles, settings, resp, sw, sr,
                   varsAudit, http, sz, g_kept>>
    /\ \E w \in ATRWorkers :
          \/ ATRStart(w)
          \/ ATRCheck(w)
          \/ ATRFindPrimary(w)
          \/ ATRCommit(w)

SpecGrant == InitGrant /\ [][NextGrant]_vars

(***************************************************************************)
(* Requests served one after another inside one application context, as    *)
(* the repository's tests serve them (tests/conftest.py, app_context):     *)
(* flask.g outlives the request, so g.tenant is what the last request      *)
(* that passed tenant_required left there.                                 *)
(***************************************************************************)

\* The database calls of create_tenant that fail: none, the commit inside
\* create_default_roles, or the handler's own commit.
CommitFailures == {"none", "roles_commit", "final_commit"}

\* POST /api/auth/login: tenant_required sets g.tenant when it resolves one.
KeptLogin ==
    /\ LoginRequest
    /\ g_kept' = IF resp'.tenant # NoTenant THEN resp'.tenant ELSE g_kept
    /\ UNCHANGED <<atr, sz>>

\* POST /api/tenants
KeptCreateTenant ==
    /\ \E caller \in Callers, subdomain \in {"acme", "gamma"}, fails \in CommitFailures :
         CreateTenantIn(caller, subdomain, g_kept, fails)
    /\ UNCHANGED <<users, settings, varsMore>>

InitKept == InitApi({TRUE}, {TRUE}, {TRUE}) /\ InitRoleIdle /\ InitRLIdle /\ InitSWIdle /\ InitExtIdle

NextKept ==
    /\ UNCHANGED <<varsRole, varsRL, app_debug, tr, sw, sr, varsAudit, http>>
    /\ \/ KeptLogin
       \/ KeptCreateTenant

SpecKept == InitKept /\ [][NextKept]_vars

\* Requests with JSON bodies passing the sanitizer.
InitSanitize ==
    /\ InitApi({TRUE}, {TRUE}, {TRUE})
    /\ InitRoleIdle /\ InitRLIdle /\ InitSWIdle /\ InitExtIdle

NextSanitize ==
    /\ UNCHANGED <<varsRole, varsRL, varsTR, varsDB, sw, sr, varsAudit, http, atr, g_kept>>
    /\ \/ SZRequest
       \/ SZResubmit

SpecSanitize == InitSanitize /\ [][NextSanitize]_vars

(***************************************************************************)
(* Claims                                                                  *)
(***************************************************************************)

\* C5: has_permission(x) is truthy for every x when the permission set holds a
\* truthy admin entry; without one it is truthy exactly when the key of x is
\* present with a truthy value; it is falsy for an empty or missing set.
C5_HasPermission ==
    hp_call.called =>
        LET items == role_permissions.items
            key == IF hp_call.permission.kind = "enum"
                   THEN PermissionValue[hp_call.permission.name]
                   ELSE hp_call.permission.name
            adminTrue == ~role_permissions.none /\ items["admin"] \in {"true", "1"}
            keyTrue == /\ ~role_permissions.none
                       /\ key \in RoleKeys
                       /\ items[key] \in {"true", "1"}
        IN  Truthy(hp_call.result) <=> (adminTrue \/ keyTrue)

\* C5 witness: a call on a role with admin: true for a key the role does not hold.
C5_Witness ==
    /\ hp_call.called
    /\ ~role_permissions.none
    /\ role_permissions.items["admin"] = "true"
    /\ role_permissions.items["manage_users"] = Absent
    /\ hp_call.permission = [kind |-> "enum", name |-> "MANAGE_USERS"]
    /\ Truthy(hp_call.result)

\* C6: within one window the requests counted 1..Limit are allowed and report
\* remaining = Limit - count; every request counted above Limit is denied with
\* status 429 and a positive Retry-After, and its handler is not executed.
C6_WindowClaim ==
    \A w \in RLWorkers :
        rl[w].pc = "done" /\ rl[w].current >= 1 =>
            /\ rl[w].current <= Limit =>
                  /\ rl[w].runs >= 1
                  /\ rl[w].status # 429
                  /\ rl[w].headers => rl[w].remaining = Limit - rl[w].current
            /\ rl[w].current > Limit =>
                  /\ rl[w].status = 429
                  /\ rl[w].runs = 0
                  /\ rl[w].retry_after > 0

\* C7: a request served while the limiter is disabled, has no Redis client, or
\* saw a store call fail runs the handler and returns the handler's own result:
\* never a 429 and never a response made by the limiter.
C7_FailOpen ==
    \A w \in RLWorkers :
        rl[w].pc = "done" /\ (~rl_enabled \/ ~rl_redis \/ rl[w].store_failed) =>
            /\ rl[w].runs >= 1
            /\ rl[w].by = "handler"
            /\ rl[w].status = HandlerStatus(rl[w].outcome)
            /\ rl[w].status # 429

\* C7 witness: a request over the limit whose TTL read failed was still served.
C7_Witness ==
    \E w \in RLWorkers :
        /\ rl[w].pc = "done"
        /\ rl[w].store_failed
        /\ rl[w].current > Limit
        /\ rl[w].runs = 1
        /\ rl[w].status = 200

\* The first label of a Host header, before any "." or ":".
FirstLabel(h) == IF h = <<>> \/ h[1] \in {".", ":"} THEN <<>> ELSE <<h[1]>>

\* C8: with debug off the resolved tenant is the active tenant whose subdomain
\* is the Host's first label (port stripped); a reserved label, an inactive
\* tenant or an unknown subdomain gives TenantNotFound; X-Tenant-ID has no effect.
C8_HostOnly ==
    \A w \in TRWorkers :
        (~app_debug /\ tr[w].pc = "done") =>
            LET label == FirstLabel(tr[w].host)
                match == {t \in DOMAIN tenants :
                            /\ tenants[t].is_active
                            /\ <<tenants[t].subdomain>> = label}
            IN  IF label \notin {<<"localhost">>, <<"www">>, <<"api">>} /\ match # {}
                THEN tr[w].result \in match /\ tr[w].outcome = "handler"
                ELSE tr[w].result = NoTenant /\ tr[w].outcome = "TenantNotFound"

\* A production request for acme:8080 carrying the id of another existing
\* active tenant in X-Tenant-ID resolved to acme's tenant.
C8_Witness ==
    \E w \in TRWorkers :
        /\ ~app_debug /\ tr[w].pc = "done"
        /\ tr[w].host = <<"acme", ":", "8080">>
        /\ tr[w].header = "t2" /\ "t2" \in DOMAIN tenants /\ tenants["t2"].is_active
        /\ tr[w].result = "t1" /\ tr[w].outcome = "handler"

DevelopmentTenants == {t \in DOMAIN tenants : tenants[t].name = "Development Tenant"}

\* C9: with debug on a request whose X-Tenant-ID names an existing tenant gets
\* that tenant, otherwise an active tenant when one exists, and it creates the
\* "Development Tenant" only when the table holds no row; under any interleaving
\* at most one auto-created tenant exists and none exists beside another tenant.
C9_DebugResolution ==
    /\ Cardinality(DevelopmentTenants) <= 1
    /\ DevelopmentTenants # {} => DOMAIN tenants = DevelopmentTenants
    /\ \A w \in TRWorkers :
        (app_debug /\ tr[w].pc = "done") =>
            LET seeded == {t \in DOMAIN tenants : t \notin DevelopmentTenants}
                active == {t \in seeded : tenants[t].is_active}
            IN  /\ tr[w].header \in seeded =>
                    tr[w].result = tr[w].header /\ ~tr[w].created
                /\ (tr[w].header \notin seeded /\ active # {}) =>
                    tr[w].result \in active /\ ~tr[w].created
                /\ tr[w].created =>
                    seeded = {} /\ tr[w].result \in DevelopmentTenants
                /\ (tr[w].header \notin seeded /\ tr[w].result # NoTenant) =>
                    tenants[tr[w].result].is_active

\* Two debug requests raced on an empty table: one created the development
\* tenant, the other finished without creating a second one.
C9_Witness ==
    /\ app_debug
    /\ Cardinality(DevelopmentTenants) = 1
    /\ \E w, v \in TRWorkers :
        /\ w # v
        /\ tr[w].pc = "done" /\ tr[w].created
        /\ tr[v].pc = "done" /\ ~tr[v].created /\ tr[v].result = NoTenant

\* C1: after any sequence of the operations that create or change
\* associations every user has at most one association with is_primary true.
C1_AtMostOnePrimary ==
    \A u \in DOMAIN users : Cardinality(PrimaryRows(user_tenant_roles, u)) <= 1

\* add_tenant_role gave the created user u3 a second association as primary:
\* the association u3 was created with is no longer primary.
C1_Witness ==
    /\ resp.route = "add_tenant_role" /\ resp.error = "none" /\ resp.caller = "u3"
    /\ \E i, j \in 1..Len(user_tenant_roles) :
         /\ i < j
         /\ user_tenant_roles[i].user_id = "u3" /\ ~user_tenant_roles[i].is_primary
         /\ user_tenant_roles[j].user_id = "u3" /\ user_tenant_roles[j].is_primary
         /\ user_tenant_roles[j].tenant_id = resp.target

\* C2: whenever no switch-tenant request of the user is in progress, the user
\* has exactly one primary association, never zero and never two.
C2_SwitchAtomic ==
    (\A w \in SWWorkers : sw[w].pc \in {"idle", "done"}) =>
        Cardinality(PrimaryRows(user_tenant_roles, SwitchUser)) = 1

TenantDataRoutes ==
    {"login", "get_current_user", "switch_tenant", "list_users", "get_tenant",
     "get_settings", "update_settings"}

\* C3: a request of an authenticated caller that addresses an inactive tenant
\* is refused with 403 or 404 and its handler does not run.
C3_InactiveTenantRefused ==
    ( /\ resp.route \in TenantDataRoutes
      /\ resp.caller # Anonymous
      /\ resp.target \in DOMAIN tenants
      /\ ~tenants[resp.target].is_active )
    => (resp.status \in {403, 404} /\ ~resp.ran)

\* The role u holds in tenant t, as stored, grants the permission key.
Grants(u, t, key) ==
    \E i \in 1..Len(user_tenant_roles) :
        /\ user_tenant_roles[i].user_id = u
        /\ user_tenant_roles[i].tenant_id = t
        /\ user_tenant_roles[i].role_id \in DOMAIN roles
        /\ LET items == roles[user_tenant_roles[i].role_id].permissions.items
           IN  \E k \in {"admin", key} : k \in DOMAIN items /\ items[k] \in {"true", "1"}

\* C4: a request that reaches the permission check of a guarded route runs the
\* handler exactly when the caller's role in the resolved tenant, as stored at
\* that moment, grants the permission, and is refused with PermissionDenied
\* (403) otherwise.
C4_PermissionGate ==
    [][ ( /\ resp'.route \in {"list_users", "get_tenant"}
          /\ resp'.error \notin {"Unauthorized", "TenantNotFound", "InactiveTenant"} )
        => LET granted == Grants(resp'.caller, resp'.tenant, PermissionValue[resp'.perm])
           IN  /\ resp'.ran <=> granted
               /\ ~granted => (resp'.status = 403 /\ resp'.error = "PermissionDenied")
      ]_vars

\* C10: a login in a resolved tenant with a known email and the right password
\* by a user without a role there gets 403 "No access to this tenant"; an
\* unknown email or a wrong password gets 401; both issue no token and leave
\* last_login and the associations unchanged.
C10_LoginWithoutRole ==
    [][ (resp'.route = "login" /\ resp'.tenant # NoTenant)
        => LET u == resp'.caller
               no_role == /\ u # NoUser /\ resp'.password_ok
                          /\ \A i \in TenantRows(user_tenant_roles, u, resp'.tenant) :
                               user_tenant_roles[i].role_id \notin DOMAIN roles
               bad_credentials == u = NoUser \/ ~resp'.password_ok
           IN  /\ no_role =>
                     /\ resp'.status = 403 /\ resp'.error = "No access to this tenant"
               /\ bad_credentials => resp'.status = 401
               /\ (no_role \/ bad_credentials) =>
                     /\ ~resp'.token
                     /\ users' = users
                     /\ user_tenant_roles' = user_tenant_roles
      ]_vars

\* C11: a login in a resolved tenant by an inactive user with the right
\* password is refused with 403, issues no token and leaves last_login as it was.
C11_InactiveLogin ==
    [][ ( /\ resp'.route = "login" /\ resp'.tenant # NoTenant
          /\ resp'.caller # NoUser /\ resp'.password_ok
          /\ ~users[resp'.caller].is_active )
        => /\ resp'.status = 403
           /\ ~resp'.token
           /\ users'[resp'.caller].last_login = users[resp'.caller].last_login
      ]_vars

\* C12: a login in a resolved tenant by an active user with the right password
\* and a role in that tenant gets 200 and a token and stamps last_login; a user
\* who had no primary association has the one in the resolved tenant as primary
\* afterwards.
C12_LoginSuccess ==
    [][ ( /\ resp'.route = "login" /\ resp'.tenant # NoTenant
          /\ resp'.caller # NoUser /\ resp'.password_ok
          /\ users[resp'.caller].is_active /\ users[resp'.caller].password_hash
          /\ \E i \in TenantRows(user_tenant_roles, resp'.caller, resp'.tenant) :
                user_tenant_roles[i].role_id \in DOMAIN roles )
        => /\ resp'.status = 200 /\ resp'.token
           /\ users'[resp'.caller].last_login > users[resp'.caller].last_login
           /\ PrimaryRows(user_tenant_roles, resp'.caller) = {} =>
                \E i \in PrimaryRows(user_tenant_roles', resp'.caller) :
                    user_tenant_roles'[i].tenant_id = resp'.tenant
      ]_vars

\* C13: every token issued by login, Google login or switch-tenant carries the
\* user's id, the id of the tenant it is scoped to and the name of the role the
\* user holds in that tenant when it is issued; no token has an empty role claim
\* or is issued to a user without a role in the token's tenant.
C13_TokenClaims ==
    (resp.token /\ resp.route \in {"login", "google_auth", "switch_tenant"})
    => /\ resp.claims.identity = resp.caller
       /\ resp.claims.tenant_id =
            (IF resp.route = "switch_tenant" THEN resp.target ELSE resp.tenant)
       /\ resp.claims.role # NoRole
       /\ \E i \in TenantRows(user_tenant_roles, resp.caller, resp.claims.tenant_id) :
            /\ user_tenant_roles[i].role_id \in DOMAIN roles
            /\ roles[user_tenant_roles[i].role_id].name = resp.claims.role

\* C14: a request to the external-identity login with a verified token whose
\* subject id no user has creates exactly one User and exactly one
\* UserTenantRole, binding that user to the 'user' role of the resolved tenant;
\* a request whose subject already has a user with an association in the
\* resolved tenant creates no User and no UserTenantRole.
C14_ExternalIdempotent ==
    [][ (resp'.route = "google_auth" /\ resp'.caller # NoUser)
        => LET u == resp'.caller
               t == resp'.tenant
               sub == users'[u].google_id
               known == {v \in DOMAIN users : users[v].google_id = sub}
           IN  /\ known = {} =>
                     /\ DOMAIN users' = DOMAIN users \cup {u}
                     /\ Cardinality(DOMAIN users') = Cardinality(DOMAIN users) + 1
                     /\ Len(user_tenant_roles') = Len(user_tenant_roles) + 1
                     /\ SubSeq(user_tenant_roles', 1, Len(user_tenant_roles))
                          = user_tenant_roles
                     /\ LET row == user_tenant_roles'[Len(user_tenant_roles')]
                        IN  /\ row.user_id = u /\ row.tenant_id = t
                            /\ row.role_id \in DOMAIN roles
                            /\ roles[row.role_id].name = "user"
                            /\ roles[row.role_id].tenant_id = t
               /\ (\E v \in known : TenantRows(user_tenant_roles, v, t) # {}) =>
                     /\ DOMAIN users' = DOMAIN users
                     /\ Len(user_tenant_roles') = Len(user_tenant_roles)
      ]_vars

\* C14 witness: the subject g3 was new, logged in twice in one tenant, and
\* holds exactly one association there.
C14_Witness ==
    /\ resp.route = "google_auth" /\ resp.status = 200
    /\ resp.caller \in DOMAIN users
    /\ users[resp.caller].google_id = "g3"
    /\ users[resp.caller].last_login = MaxGoogleLogins
    /\ Cardinality(TenantRows(user_tenant_roles, resp.caller, resp.tenant)) = 1
    /\ Cardinality({i \in DOMAIN user_tenant_roles :
                      user_tenant_roles[i].user_id = resp.caller}) = 1

\* C15: the external-identity login answers a token that fails verification
\* with 401, a missing verifier client id with 500 and a missing token with 400.
C15_ExternalErrors ==
    resp.route = "google_auth" =>
        /\ resp.error = "Invalid token" => resp.status = 401
        /\ resp.error = "Authentication failed: Google OAuth not configured" =>
              resp.status = 500
        /\ resp.error = "Missing Google token" => resp.status = 400

\* C16: switch-tenant answers 200 only to a caller who holds an association in
\* the target tenant, and then that association is the caller's only primary
\* and the token is scoped to the target tenant; a caller without an
\* association there, or a body without tenant_id, gets 400 and every
\* is_primary flag is as before.
C16_SwitchTenant ==
    [][ (resp'.route = "switch_tenant" /\ resp'.caller # Anonymous)
        => LET u == resp'.caller
               held == TenantRows(user_tenant_roles, u, resp'.target)
           IN  /\ resp'.status = 200 =>
                     /\ held # {}
                     /\ PrimaryRows(user_tenant_roles', u) = held
                     /\ Cardinality(held) = 1
                     /\ resp'.token
                     /\ resp'.claims.tenant_id = resp'.target
               /\ held = {} =>
                     /\ resp'.status = 400
                     /\ ~resp'.token
                     /\ user_tenant_roles' = user_tenant_roles
      ]_vars

\* C16 witness: a caller whose primary was elsewhere switched to a tenant
\* where they hold an association.
C16_Witness ==
    /\ resp.route = "switch_tenant" /\ resp.status = 200
    /\ resp.caller = "u2" /\ resp.target = "t1"
    /\ \E i \in TenantRows(user_tenant_roles, "u2", "t2") :
         ~user_tenant_roles[i].is_primary
    /\ \E i \in TenantRows(user_tenant_roles, "u2", "t1") :
         user_tenant_roles[i].is_primary

\* The values a read of key k of owner o can return: one per matching row,
\* and no value when the owner has no row.
Stored(rows, o, k) ==
    IF get_for_owner(rows, o) = {} THEN {Absent}
    ELSE {rows[i].settings[k] : i \in get_for_owner(rows, o)}

\* C17: in any interleaving, a single-key settings request on key k of an
\* owner leaves what is stored under every other key of that owner, and every
\* setting of every other owner, as it was; deleting a key that is absent is
\* answered with 404 and changes nothing.
C17_SingleKeyFrame ==
    [][ \A w \in SRWorkers :
          (sr[w].pc \in {"load", "commit"} /\ sr'[w].pc = "done")
          => /\ \A o \in SettingsOwners, k \in SettingKeys :
                   (o # sr[w].owner_id \/ k # sr[w].key)
                   => Stored(settings', o, k) = Stored(settings, o, k)
             /\ sr'[w].status = 404 => settings' = settings
             /\ ( /\ sr[w].op = "delete_setting" /\ sr[w].pc = "load"
                  /\ Stored(settings, sr[w].owner_id, sr[w].key) \subseteq {Absent} )
                => sr'[w].status = 404
      ]_vars

\* C18: when the handler of an audited route returned a response,
\* decorated_function returns exactly that response whether or not the audit
\* step failed, and the rows the handler committed are still there.
C18_AuditBestEffort ==
    [][ (au.pc = "return" /\ au'.pc = "idle")
        => /\ resp' = au.response
           /\ resp'.status \in {200, 201}
           /\ <<users', user_tenant_roles'>> = au.committed
      ]_vars

\* C18 witness: create_user committed a user, the audit step failed, and the
\* client received the handler's 201.
C18_Witness ==
    /\ au.pc = "idle" /\ au.failed
    /\ au.response.route = "create_user"
    /\ resp = au.response /\ resp.status = 201
    /\ \E u \in DOMAIN users : users[u].email = "c@x"

\* C19: when the handler of an audited route has completed, the request has
\* added exactly one AuditLog row, with the route's action and entity type,
\* the tenant and the actor, and only after the handler's commit; a request
\* whose handler did not return adds none; rows are never changed or removed.
C19_OneAuditRow ==
    [][ /\ Len(audit_logs') >= Len(audit_logs)
        /\ SubSeq(audit_logs', 1, Len(audit_logs)) = audit_logs
        /\ (au.pc = "idle" /\ au'.pc = "idle") => audit_logs' = audit_logs
        /\ audit_logs' # audit_logs => au.pc \notin {"idle", "commit"}
        /\ (au.pc = "return" /\ au'.pc = "idle")
           => /\ Len(audit_logs) = au.rows_before + 1
              /\ audit_logs[Len(audit_logs)] =
                    AuditLogRow(au.response.route, au.response.tenant, au.response.caller)
      ]_vars

\* The headers C20 names.
SecurityHeaderNames ==
    {"X-Frame-Options", "X-Content-Type-Options", "Content-Security-Policy",
     "Referrer-Policy"}

\* C20: every response sent carries X-Frame-Options, X-Content-Type-Options,
\* Content-Security-Policy and Referrer-Policy, whatever the method, the stage
\* that answered and the status, error handler responses included.
C20_SecurityHeaders ==
    http.pc = "sent" => SecurityHeaderNames \subseteq http.headers

\* C20 witness: a response made by an error handler for a stage that
\* short-circuited a POST was sent with the headers.
C20_Witness ==
    /\ http.pc = "sent" /\ http.method = "POST"
    /\ http.by = "error_handler" /\ http.stage = "authorization"
    /\ http.status = 403
    /\ SecurityHeaderNames \subseteq http.headers

\* C21: with the limiter enabled and the store answering, every response of a
\* rate-limited route carries X-RateLimit-Limit, X-RateLimit-Remaining and
\* X-RateLimit-Reset, whether the request was allowed or denied and whether the
\* handler returned or raised.
C21_RateLimitHeaders ==
    \A w \in RLWorkers :
        (rl[w].pc = "done" /\ rl_enabled /\ rl_redis /\ ~rl[w].store_failed)
        => rl[w].headers

\* C22: a domain error raised by an inner stage reaches the client with the
\* status of its kind: TenantNotFound 404, InactiveTenant 403, PermissionDenied
\* 403; none of them is answered with 500.
C22_DomainErrorStatus ==
    /\ resp.error = "TenantNotFound" => resp.status = 404
    /\ resp.error = "InactiveTenant" => resp.status = 403
    /\ resp.error = "PermissionDenied" => resp.status = 403

\* C23: at most one UserTenantRole row exists per (user, tenant) pair, after
\* any sequence or interleaving of add_tenant_role calls.
C23_OneRolePerTenant ==
    \A u \in DOMAIN users, t \in DOMAIN tenants :
        Cardinality(TenantRows(user_tenant_roles, u, t)) <= 1

RECURSIVE LeafwiseSanitized(_, _)
\* out has the shape of in, each string of in sanitized, each number as it was.
LeafwiseSanitized(in, out) ==
    /\ out.kind = in.kind
    /\ out.keys = in.keys
    /\ out.num = in.num
    /\ out.str = IF in.kind = "str" THEN sanitize_string(in.str) ELSE in.str
    /\ Len(out.items) = Len(in.items)
    /\ \A i \in 1..Len(in.items) : LeafwiseSanitized(in.items[i], out.items[i])

\* C24: sanitizing a sanitized JSON body gives the same body; on a sanitized
\* request every string at any depth of objects and lists is sanitized and
\* numbers are unchanged; a request on an exempt path reaches the handler with
\* its body as sent.
C24_Sanitization ==
    /\ (sz.pc = "resubmitted") => sz.again = sz.seen
    /\ (sz.pc # "idle" /\ sz.status = 200 /\ ~IsExempt(sz.path)
          /\ sz.method \in SanitizedMethods /\ sz.content_type = "application/json")
        => LeafwiseSanitized(sz.body, sz.seen)
    /\ (sz.pc # "idle" /\ IsExempt(sz.path)) => (sz.status = 200 /\ sz.seen = sz.body)

\* A nested body with markup and control characters was sanitized and sent again.
C24_Witness ==
    /\ sz.pc = "resubmitted"
    /\ sz.body.kind = "dict"
    /\ sz.seen # sz.body
    /\ ~IsExempt(sz.path)


\* C25: on a route guarded by require_permission, when the permission check
\* runs (the caller is authenticated), tenant resolution has completed and put
\* an active tenant in the request context.
C25_TenantBeforePermission ==
    ( /\ resp.route \in {"list_users", "get_tenant", "create_tenant"}
      /\ resp.caller # Anonymous
      /\ resp.error \notin {"TenantNotFound", "InactiveTenant"} )
    => (resp.tenant \in DOMAIN tenants /\ tenants[resp.tenant].is_active)


\* C26: counting and expiry are one step at the store: whenever no request is
\* between its INCR and its EXPIRE, an existing counter key has an expiry of at
\* most the window, so a denied client is allowed again after the window.
C26_CounterExpires ==
    (store_count > 0 /\ \A w \in RLWorkers : rl[w].pc # "expire")
    => store_ttl \in 1..Period


\* C28: the wrapped handler is executed at most once per request, whether the
\* store works or fails and whether the handler returns, raises APIError or
\* raises another exception.
C28_HandlerAtMostOnce ==
    \A w \in RLWorkers : rl[w].runs <= 1

\* C27: a tenant created by POST /tenants is persisted together with its three
\* default roles (admin, staff, user) and its creator's admin association, or
\* not at all.
C27_CreateTenantAtomic ==
    "t3" \in DOMAIN tenants =>
        /\ {roles[r].name : r \in {q \in DOMAIN roles : roles[q].tenant_id = "t3"}}
             = {"admin", "staff", "user"}
        /\ \E i \in 1..Len(user_tenant_roles) :
              /\ user_tenant_roles[i].tenant_id = "t3"
              /\ user_tenant_roles[i].role_id \in DOMAIN roles
              /\ roles[user_tenant_roles[i].role_id].name = "admin"


\* C29: a request that reads or changes the data of tenant T named in its URL
\* succeeds only if the caller holds a role in T itself, and for the tenant
\* details one that grants view_tenant; a role held in another tenant
\* authorizes nothing on T.
C29_TenantIsolation ==
    ( /\ resp.route \in {"get_tenant", "get_settings", "update_settings"}
      /\ resp.status \in {200, 201}
      /\ resp.target \in DOMAIN tenants )
    => /\ TenantRows(user_tenant_roles, resp.caller, resp.target) # {}
       /\ resp.route = "get_tenant" => Grants(resp.caller, resp.target, "view_tenant")


\* C30: every UserTenantRole binds its user to a role of the association's own
\* tenant: the role's tenant_id equals the association's tenant_id.
C30_RoleOfOwnTenant ==
    \A i \in 1..Len(user_tenant_roles) :
        user_tenant_roles[i].role_id \in DOMAIN roles
        => roles[user_tenant_roles[i].role_id].tenant_id = user_tenant_roles[i].tenant_id

====
